------------------------------ MODULE MCLogin ------------------------------
(* Two machines, the command lines that tell the routes apart, and the     *)
(* portals that a login meets on its way.                                  *)
EXTENDS Login

MCMachines ==
  {[os |-> "Linux", hostname |-> <<"host">>, computer |-> Blank, firmwareId |-> <<"dmi">>,
    firmwareSerial |-> Blank, machineId |-> <<"machine-id">>, dbusId |-> Blank,
    wifiMac |-> Blank, defaultMac |-> <<"mac", "eth0">>, interface |-> <<"eth0">>,
    processes |-> {"agent"}, preferences |-> {}, sudo |-> FALSE,
    probes |-> [defender |-> "unreadable", clamav |-> "on", ufw |-> "off",
                filevault |-> "absent", firewall |-> "absent",
                gatekeeper |-> "absent", softwareUpdate |-> "absent"]],
   [os |-> "Mac", hostname |-> <<"host">>, computer |-> <<"book">>, firmwareId |-> Blank,
    firmwareSerial |-> <<"serial">>, machineId |-> Blank, dbusId |-> Blank,
    wifiMac |-> <<"mac", "en0">>, defaultMac |-> Blank, interface |-> Blank,
    processes |-> {}, preferences |-> {<<"com.example", "managed">>}, sudo |-> FALSE,
    probes |-> [defender |-> "absent", clamav |-> "absent", ufw |-> "absent",
                filevault |-> "on", firewall |-> "off",
                gatekeeper |-> "unreadable", softwareUpdate |-> "on"]]}

Plain == [os |-> "Linux", asGateway |-> FALSE, cookieOnStdin |-> FALSE, cookieCache |-> FALSE,
          auto |-> FALSE, gateway |-> "", browser |-> FALSE, csc |-> "auto", clean |-> FALSE,
          certificate |-> FALSE, cookieOnly |-> FALSE, hip |-> FALSE, hostname |-> Blank]

\* Every system, and for each the options that meet on one command line.
MCArguments ==
  {[Plain EXCEPT !.os = os, !.cookieCache = TRUE, !.hip = TRUE,
             !.certificate = os = "Linux"] : os \in {"Linux", "Windows"}}
    \cup {[Plain EXCEPT !.os = os, !.cookieOnStdin = TRUE] : os \in {"Linux", "Windows"}}
    \cup {[Plain EXCEPT !.asGateway = TRUE, !.cookieOnStdin = TRUE, !.certificate = TRUE,
                      !.cookieOnly = TRUE],
          [Plain EXCEPT !.auto = TRUE, !.browser = TRUE, !.csc = "yes", !.clean = TRUE],
          [Plain EXCEPT !.os = "Mac", !.gateway = "west.example", !.hostname = <<"named">>,
                          !.hip = TRUE]}

Gw(name, address, priority, rules) ==
  [name |-> name, address |-> address, priority |-> priority, rules |-> rules]

East == Gw("East", "east.example", 2, <<[name |-> "EU", priority |-> 1]>>)
West == Gw("West", "west.example", 1, <<[name |-> "US", priority |-> 1],
                                        [name |-> "Any", priority |-> 2]>>)
Core == Gw("Core", "core.example", 1, <<[name |-> "Any", priority |-> 9]>>)

Doc(internal, external, detection, extend, defaultBrowser) ==
  [internal |-> internal, external |-> external, detection |-> detection, extend |-> extend,
   defaultBrowser |-> defaultBrowser, connectMethod |-> ""]

MCDocs ==
  {Doc(<<>>, <<<<East, West>>>>, <<>>, "yes", "yes"),
   Doc(<<<<Core>>>>, <<<<West>>>>, <<<<"other", "matches">>>>, "no", ""),
   Doc(<<>>, <<>>, <<>>, "", "no")}

NoChecks == [macPlist |-> <<>>, linuxProcess |-> <<>>, process |-> <<>>,
             windowsRegistry |-> <<>>, registry |-> <<>>]
List(names) == [members |-> names \cup {""}, entries |-> {}]

MCCriteria ==
  {[cookie |-> Blank, checks |-> NoChecks],
   [cookie |-> <<"csc">>,
    checks |-> [macPlist |-> <<{[domain |-> "com.example", keys |-> {"managed", "locked"}]}>>,
                linuxProcess |-> <<>>, process |-> <<List({"agent", "other"})>>,
                windowsRegistry |-> <<>>, registry |-> <<List({"HKLM"})>>]]}

MCRegions == {"EU", "US"}
=============================================================================
