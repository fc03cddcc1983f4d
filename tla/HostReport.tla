----------------------------- MODULE HostReport -----------------------------
(***************************************************************************)
(* What the client reports of the machine: the answers to the portal's     *)
(* custom checks (portal/csc.rs) and the HIP report (gpclient's hip.rs     *)
(* with templates/hip_report.xml).  Lists are sets: their order, and       *)
(* duplicates, are layout.  A machine is a record as in HostProfile with   *)
(* its processes, its preferences (pairs of domain and key), its interface *)
(* (an optional name) and what a probe of each product finds.              *)
(***************************************************************************)
EXTENDS HostProfile

Answer(name, exist) == [name |-> name, exist |-> exist]

\* The first list that the criteria have for this system.
FirstList(lists) ==
  LET i == SelectInSeq(lists, LAMBDA list : list # <<>>)
  IN  IF i = 0 THEN <<>> ELSE lists[i]

\* Members and entries; a member that is blank asks for nothing.
Names(list) == (list.members \ {""}) \cup list.entries

\* A property list is asked for its keys, or for its own name if it has none.
Keys(entry) == IF entry.keys = {} THEN {entry.domain} ELSE entry.keys

\* defaults, which only macOS has, and the names in /proc.
HasPreference(machine, domain, key) ==
  machine.os = "Mac" /\ <<domain, key>> \in machine.preferences

ProcessNames(machine) == IF machine.os = "Linux" THEN machine.processes ELSE {}

\* An entry is answered key by key, and as a whole: is any of its keys there.
PlistAnswers(machine, plist) ==
  UNION {LET Has(key) == HasPreference(machine, entry.domain, key)
         IN  {Answer(<<entry.domain>>, \E key \in Keys(entry) : Has(key))}
               \cup {Answer(<<entry.domain, key>>, Has(key)) : key \in Keys(entry)} :
           entry \in plist}

ProcessAnswers(machine, list) ==
  {Answer(<<name>>, name \in ProcessNames(machine)) : name \in Names(list)}

RegistryAnswers(list) == {Answer(<<name>>, FALSE) : name \in Names(list)}

\* build_custom_checks for the system that is shown, on the machine there is.
CustomChecks(machine, os, checks) ==
  LET plist    == FirstList(<<checks.macPlist>>)
      process  == FirstList(<<checks.linuxProcess, checks.process>>)
      registry == FirstList(<<checks.windowsRegistry, checks.registry>>)
  IN  CASE os = "Mac" /\ plist # <<>>        -> PlistAnswers(machine, Head(plist))
        [] os = "Linux" /\ process # <<>>    -> ProcessAnswers(machine, Head(process))
        [] os = "Windows" /\ registry # <<>> -> RegistryAnswers(Head(registry))
        [] OTHER -> {}

\* The request: the portal's cookie, who asks, and the answers.
CscRequest(machine, profile, criteria) ==
  [cookie   |-> criteria.cookie,
   hostId   |-> profile.hostId,
   serialno |-> profile.serialno,
   answers  |-> CustomChecks(machine, profile.os, criteria.checks)]

-----------------------------------------------------------------------------
LinuxProducts == {"defender", "clamav", "ufw"}
MacProducts   == {"filevault", "firewall", "gatekeeper", "softwareUpdate"}

\* A probe finds the product "on", "off" or "absent", or is "unreadable": it
\* cannot be run, fails or says something unknown.  ufw tells only root, or
\* a user whom sudo lets ask.
Probe(machine, root, product) ==
  IF product = "ufw" /\ ~root /\ ~machine.sudo THEN "unreadable"
  ELSE machine.probes[product]

\* Linux lists a product if its probe says whether it protects.
LinuxPosture(machine, root) ==
  {Answer(<<product>>, Probe(machine, root, product) = "on") :
     product \in {p \in LinuxProducts : Probe(machine, root, p) \in {"on", "off"}}}

\* macOS lists all: as protecting only when that was found on this machine.
MacPosture(machine, native) ==
  {Answer(<<product>>, native /\ machine.probes[product] = "on") : product \in MacProducts}

\* The rows of the template, and what they say on any machine: nobody probes
\* these products.  A row that says neither yes nor no claims nothing.
FixedRows(os) ==
  LET Rows(products, claim) == {Answer(<<product>>, claim) : product \in products}
  IN  CASE os = "Linux" ->
             Rows({"cryptsetup", "yum"}, TRUE) \cup Rows({"iptables", "nftables"}, FALSE)
        [] os = "Mac" ->
             Rows({"xprotect"}, TRUE) \cup Rows({"packetFilter"}, FALSE)
        [] os = "Windows" ->
             Rows({"mcAfee", "driveEncryption", "windowsFirewall", "ePolicy", "windowsUpdate"},
                  TRUE) \cup Rows({"windowsDefender"}, FALSE)

ProbedRows(machine, root, profile) ==
  CASE profile.os = "Linux"   -> LinuxPosture(machine, root)
    [] profile.os = "Mac"     -> MacPosture(machine, profile.native)
    [] profile.os = "Windows" -> {}

Posture(machine, root, profile) ==
  FixedRows(profile.os) \cup ProbedRows(machine, root, profile)

\* gpclient hip: the profile is built anew.  The interfaces are left out.
HipReport(machine, root, os, hostId) ==
  LET profile == OsProfile(machine, root, os, hostId, Blank)
  IN  [hostId |-> profile.hostId, posture |-> Posture(machine, root, profile)]
=============================================================================
