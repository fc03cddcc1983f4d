------------------------------- MODULE Login -------------------------------
(***************************************************************************)
(* How gpclient connect logs in: what it sends to which server, as whom    *)
(* and with which credential, through portal, gateways, the cookie cache,  *)
(* a result of gpauth on standard input, one-time passwords, the tunnel's  *)
(* HIP report and the session's extension (apps/gpclient/src/connect).     *)
(* GpclientConnect models the attempts, signals and exit of the same       *)
(* process; this module models its requests.                               *)
(*                                                                         *)
(* The program is sequential: a request and its reply are one action, and  *)
(* the reply is any the server may give.  Standing for whole runs one      *)
(* after another, the module keeps the cookie cache between them.          *)
(***************************************************************************)
EXTENDS Credentials, HostReport, PortalConfig

CONSTANTS Machines,       \* records as in HostProfile and HostReport
          Arguments,      \* command lines of gpclient connect
          Docs,           \* portal configurations
          Criteria,       \* CSC criteria of the portal
          Regions,        \* regions a prelogin may name
          MaxRuns,        \* bounds the runs that share a cookie cache
          MaxChallenges   \* bounds the challenges of one login

\* A text of the machine is one that no server has issued, and the lists of a
\* portal configuration are what XML can say.
MachineTexts(m) == {m.hostname, m.computer, m.firmwareId, m.firmwareSerial,
                    m.machineId, m.dbusId, m.wifiMac, m.defaultMac}
Rules    == [name : STRING, priority : Nat]
Gateways == [name : STRING, address : STRING, priority : Nat, rules : Seq(Rules)]

ASSUME LoginAssumption ==
  /\ \A m \in Machines :
       m.os \in ClientOs /\ \A text \in MachineTexts(m) : text \in Seq(STRING) /\ ~IsIssued(text)
  /\ \A a \in Arguments : a.os \in ClientOs
  /\ \A doc \in Docs :
       doc.internal \in Seq(Seq(Gateways)) /\ doc.external \in Seq(Seq(Gateways))

VARIABLES machine,     \* the machine, the same for all runs
          runs,        \* how many runs there were
          args, root,  \* the command line of this run, and whether it is root's
          pc,          \* where the process is
          locked,      \* the private key cannot be read yet
          stdin,       \* the line on standard input, if there is one
          profile,     \* ConnectHandler.os_profile
          clean,       \* CleanAuthState.requested
          store,       \* the cookie cache
          prelogin,    \* the last prelogin, until its last use
          config,      \* the portal's configuration, sorted, if there is one
          next,        \* the gateway that is tried, of its list
          login,       \* the login under way: route, gateway and credential
          gpParams,    \* its copy of GpParams: one-time password and challenge
          sent         \* the last request, or launch of gpauth

process == <<args, root, locked, stdin, profile, clean>>
vars == <<machine, runs, process, pc, store, prelogin, config, next, login, gpParams, sent>>

Portal == "portal.example"

NoPrelogin == [server |-> "", isGateway |-> FALSE, announced |-> "", saml |-> FALSE,
               external |-> FALSE, region |-> ""]
NoLogin == [route |-> "none", server |-> "", cred |-> Password(Blank), token |-> Blank]
NoOtp == [otp |-> Blank, input |-> Blank, challenges |-> 0]
NoRequest == [endpoint |-> "none", role |-> "", server |-> "", route |-> "none",
              host |-> Blank, texts |-> {}, passwd |-> Blank, input |-> Blank,
              browser |-> "none", answers |-> {}]

\* The profile of a command line, with or without a host id to begin from.
ProfileFor(a, asRoot, seed) == OsProfile(machine, asRoot, a.os, seed, a.hostname)

Init ==
  /\ machine \in Machines
  /\ runs = 0 /\ pc = "idle"
  /\ args \in Arguments /\ root = FALSE /\ locked = FALSE
  /\ stdin = <<>> /\ clean = FALSE
  /\ profile = ProfileFor(args, FALSE, Blank)
  /\ store = Clear
  /\ prelogin = NoPrelogin
  /\ config = <<>> /\ next = 0
  /\ login = NoLogin /\ gpParams = NoOtp
  /\ sent = NoRequest

-----------------------------------------------------------------------------
(* Requests: to whom, in which role, for which host, and what they show.   *)

Request(endpoint, role, server, params, input) ==
  [NoRequest EXCEPT
     !.endpoint = endpoint, !.role = role, !.server = server, !.route = login.route,
     !.host = profile.hostId, !.texts = {params[p] : p \in DOMAIN params},
     !.passwd = params.passwd, !.input = input]

NoParams == [passwd |-> Blank]

Role(isGateway) == IF isGateway THEN "gateway" ELSE "portal"

SendPrelogin(server, isGateway) ==
  sent' = Request("prelogin", Role(isGateway), server, NoParams, Blank)

SendLogin(endpoint) ==
  sent' = Request(endpoint, "gateway", login.server,
                  LoginParams(login.cred, profile.os, gpParams.otp), gpParams.input)

\* No request can be built for want of the client's certificate.
NoIdentity == locked

\* A request that the server answers with a status error, or with what cannot
\* be parsed, makes way for the server as a gateway; any other ends the run.
FailsOver == {"directPrelogin", "idle"}

\* The prelogins a server may answer with.
Prelogins(server, isGateway, announced) ==
  {ParsePrelogin([method |-> saml, request |-> saml, defaultBrowser |-> browser,
                  region |-> region], server, isGateway, announced) :
     saml \in BOOLEAN, browser \in {"yes", "no"}, region \in Regions}

\* --browser or --default-browser.
ExternalRequested == args.browser
GatewayBrowserAllowed(defaultBrowser) == defaultBrowser \/ ExternalRequested
PreloginOptions(allowed) == [requested |-> ExternalRequested, gatewayAllowed |-> allowed]

-----------------------------------------------------------------------------
(* The run begins: its command line and, when the result comes from        *)
(* standard input, a gpauth of the same user and for the same kind of      *)
(* server before it in the pipe.                                           *)

\* Mutant: gpauth takes the host id that is shown for the seed.
AuthProfileOfShown(os, seed) ==
  OsProfile(machine, FALSE, os, OsProfile(machine, FALSE, os, seed, Blank).hostId, Blank)

\* The user that gpauth is started as.
NonRoot == FALSE

\* The profile of a gpauth: gpclient tells it the seed, and it drops root.
AuthProfile(os, seed) == OsProfile(machine, NonRoot, os, seed, Blank)

\* What a page may have given: a prelogin cookie, a user-auth cookie or both,
\* or the token of a central authentication service.
SamlForms(cookie) ==
  {Prelogin(cookie, Blank, Blank), Prelogin(Blank, cookie, Blank),
   Prelogin(cookie, cookie, Blank), Prelogin(Blank, Blank, cookie)}

\* The line that a gpauth prints: a failure, or a success with its credential
\* and its seed; and a line that nobody can parse.
AuthResults(a) ==
  LET auth         == AuthProfile(a.os, Blank)
      Without(line) == [line |-> line, seed |-> Blank, creds |-> {}]
  IN  {Without("unreadable"), Without("failure")}
        \cup {[line |-> "success", seed |-> auth.seed, creds |-> {cred}] :
                 cred \in SamlForms(Issued(Portal, Role(a.asGateway), auth.hostId))}

\* A run is worth a second look if it finds what another has left: all others
\* are like a first run.
Start ==
  /\ pc = "idle" /\ runs < MaxRuns
  /\ runs' = runs + 1
  /\ \E a \in Arguments, r \in BOOLEAN :
       /\ runs > 0 => a.cookieCache /\ store # Clear
       /\ args' = a /\ root' = r /\ clean' = a.clean
       /\ locked' \in IF a.certificate THEN BOOLEAN ELSE {FALSE}
       /\ stdin' \in IF a.cookieOnStdin THEN {<<result>> : result \in AuthResults(a)} ELSE {<<>>}
       /\ profile' = ProfileFor(a, r, Blank)
  /\ pc' = "begin"
  /\ prelogin' = NoPrelogin
  /\ config' = <<>> /\ next' = 0 /\ login' = NoLogin /\ gpParams' = NoOtp
  /\ sent' = NoRequest
  /\ UNCHANGED <<machine, store>>

\* prepare_cookie_from_stdin: a line that is not a result fails the run.
StdinFails == stdin # <<>> /\ stdin[1].line = "unreadable"

\* apply_stdin_host_id: the profile takes the seed that gpauth logged in with.
StdinProfile ==
  IF stdin = <<>> \/ stdin[1].line # "success" THEN profile
  ELSE ProfileFor(args, root, stdin[1].seed)

CachedCookie(seed) ==
  IF args.cookieCache /\ ~args.cookieOnStdin THEN Load(store, Portal, seed) ELSE <<>>

\* Mutant: logins share one GpParams.
LogInShared(route, server, cred) ==
  /\ login' = [route |-> route, server |-> server, cred |-> cred, token |-> Blank]
  /\ UNCHANGED gpParams
  /\ pc' = "login"

\* A login begins with its own copy of GpParams, without a one-time password.
LogIn(route, server, cred) ==
  /\ login' = [route |-> route, server |-> server, cred |-> cred, token |-> Blank]
  /\ gpParams' = NoOtp
  /\ pc' = "login"

NoLogIn == UNCHANGED <<login, gpParams>>

\* handle_impl up to its first request.  A key that cannot be read fails the
\* login with the cached cookie too, and so drops it.
HandleImpl ==
  LET cached == CachedCookie(StdinProfile.seed)
      usable == cached # <<>> /\ ~NoIdentity /\ CanAuthenticateGateway(cached[1].authCookie)
  IN
  /\ pc = "begin"
  /\ profile' = StdinProfile
  /\ \/ /\ StdinFails
        /\ pc' = "idle" /\ NoLogIn /\ UNCHANGED store
     \/ /\ ~StdinFails /\ args.asGateway
        /\ pc' = "directPrelogin" /\ NoLogIn /\ UNCHANGED store
     \/ /\ ~StdinFails /\ ~args.asGateway /\ ~usable
        /\ store' = IF cached # <<>> THEN Clear ELSE store
        /\ pc' = "portalPrelogin" /\ NoLogIn
     \/ /\ ~StdinFails /\ ~args.asGateway /\ usable
        /\ LogIn("cached", cached[1].lastGateway, cached[1].authCookie) /\ UNCHANGED store
  /\ UNCHANGED <<machine, runs, args, root, locked, stdin, clean, prelogin,
                 config, next, sent>>

\* handle(): a key that needs a passphrase asks for it and starts over; one
\* that is missing is reported.
Locked ==
  /\ pc \in {"portalPrelogin", "directPrelogin"} /\ NoIdentity
  /\ \/ locked' \in BOOLEAN /\ pc' = "begin"
     \/ pc' = "idle" /\ UNCHANGED locked
  /\ UNCHANGED <<machine, runs, args, root, stdin, profile, clean, store, prelogin,
                 config, next, login, gpParams, sent>>

-----------------------------------------------------------------------------
(* Prelogin.                                                               *)

\* default-browser: the browser that the prelogin tells the server of.
Announced(isGateway, allowed) ==
  DefaultBrowser(profile.os, isGateway,
                 BrowserMode(PreloginOptions(allowed), isGateway) = "external")

PreloginAnswers(server, isGateway, allowed) ==
  prelogin' \in Prelogins(server, isGateway, Announced(isGateway, allowed))

\* A portal that does not answer like one is tried as a gateway.
PortalPrelogin ==
  /\ pc = "portalPrelogin" /\ ~NoIdentity
  /\ SendPrelogin(Portal, FALSE)
  /\ \/ PreloginAnswers(Portal, FALSE, FALSE) /\ pc' = "portalCredential"
     \/ prelogin' = NoPrelogin /\ pc' \in FailsOver
  /\ NoLogIn /\ UNCHANGED <<machine, runs, process, store, config, next>>

\* connect_gateway_with_prelogin, on the server itself.
DirectPrelogin ==
  /\ pc = "directPrelogin" /\ ~NoIdentity
  /\ SendPrelogin(Portal, TRUE)
  /\ \/ PreloginAnswers(Portal, TRUE, TRUE) /\ pc' = "directCredential"
     \/ prelogin' = NoPrelogin /\ pc' = "idle"
  /\ NoLogIn /\ UNCHANGED <<machine, runs, process, store, config, next>>

-----------------------------------------------------------------------------
(* obtain_credential.                                                      *)

\* Mutant: the result on standard input serves the gateways too.
ReadStdinAlways(isGateway) == args.cookieOnStdin

ShouldReadStdin(isGateway) == args.cookieOnStdin /\ (~isGateway \/ args.asGateway)

CanUseExternalBrowser(supported, isGateway, allowed) ==
  supported /\ (~isGateway \/ allowed)

Browser(allowed) ==
  IF CanUseExternalBrowser(prelogin.external, prelogin.isGateway, allowed) /\ args.browser
  THEN "external" ELSE "embedded"

FromStdin == stdin[1].creds

\* The identity provider's cookie is for the host whose prelogin began the
\* login: gpclient's, or that of the gpauth if it had to begin again.
SamlCookies ==
  {Issued(prelogin.server, Role(prelogin.isGateway), host) :
     host \in {profile.hostId, AuthProfile(profile.os, profile.seed).hostId}}

SamlCredentials == UNION {SamlForms(cookie) : cookie \in SamlCookies}

Passwords == {Password(<<"password">>)}

\* Where the credential is to come from, and the ones it may be.
Source == IF ShouldReadStdin(prelogin.isGateway) THEN "stdin"
          ELSE IF prelogin.saml THEN "gpauth" ELSE "prompt"
Candidates ==
  CASE Source = "stdin" -> FromStdin [] Source = "gpauth" -> SamlCredentials
    [] Source = "prompt" -> Passwords

\* gpauth may fail and so may the prompt; stdin fails if it has no success.
ObtainFails == Source # "stdin" \/ Candidates = {}

\* gpauth is launched; only the first embedded browser forgets its cookies.
Launch(allowed) ==
  IF Source = "gpauth"
  THEN /\ sent' = [Request("gpauth", Role(prelogin.isGateway), prelogin.server, NoParams, Blank)
                   EXCEPT !.browser = Browser(allowed)]
       /\ clean' = (clean /\ Browser(allowed) = "external")
  ELSE UNCHANGED <<sent, clean>>

PortalCredential ==
  /\ pc = "portalCredential"
  /\ Launch(FALSE)
  /\ \/ \E cred \in Candidates :
          login' = [NoLogin EXCEPT !.route = "portal", !.server = Portal, !.cred = cred]
        /\ pc' = "getConfig"
     \/ ObtainFails /\ pc' = "idle" /\ UNCHANGED login
  /\ UNCHANGED <<machine, runs, args, root, locked, stdin, profile, store, prelogin,
                 config, next, gpParams>>

DirectCredential ==
  /\ pc = "directCredential"
  /\ Launch(TRUE)
  /\ \/ \E cred \in Candidates : LogIn("direct", Portal, cred)
     \/ ObtainFails /\ pc' = "idle" /\ NoLogIn
  /\ prelogin' = NoPrelogin
  /\ UNCHANGED <<machine, runs, args, root, locked, stdin, profile, store, config, next>>
-----------------------------------------------------------------------------
(* retrieve_config: the configuration, or criteria to answer before it.    *)

\* The cookies of a configuration are this portal's for the host that asked;
\* either may be missing, and may say that it is empty.
ConfigCookies ==
  LET cookie == Issued(Portal, "config", profile.hostId)
  IN  {AuthCookie(cookie, Blank), AuthCookie(Empty, cookie),
       AuthCookie(Empty, Empty), AuthCookie(Blank, Blank)}

\* --auto-gateway begins with the first; --gateway names one; else the user
\* picks one of several, unless the prompt fails.  0 is for one that there is
\* not.
Selectable(gateways) ==
  CASE args.auto -> {1}
    [] ~args.auto /\ args.gateway # "" -> {FindGateway(gateways, args.gateway)}
    [] OTHER -> DOMAIN gateways \cup (IF Len(gateways) > 1 THEN {0} ELSE {})

Configured ==
  \E doc \in Docs, authCookie \in ConfigCookies :
    LET parsed   == ParseConfig(doc, Portal)
        gateways == SortGateways(parsed.gateways, prelogin.region)
    IN  /\ config' = <<[gateways       |-> gateways,
                        extend         |-> parsed.extend,
                        defaultBrowser |-> parsed.defaultBrowser,
                        authCookie     |-> CarryPassword(authCookie, login.cred)]>>
        /\ next' \in Selectable(gateways)
        /\ prelogin' = NoPrelogin
        /\ pc' = IF next' = 0 THEN "idle" ELSE "gatewayPrelogin"

\* A portal that does not have a configuration is tried as a gateway.
NotConfigured(failure) ==
  pc' = failure /\ UNCHANGED <<prelogin, config, next>>

GetConfigParams == LoginParams(login.cred, profile.os, Blank)

RetrieveConfig ==
  /\ pc = "getConfig"
  /\ sent' = Request("getconfig", "portal", Portal, GetConfigParams, Blank)
  /\ \/ Configured
     \/ EffectiveCscSupport(args.csc, profile.os) /\ NotConfigured("csc")
     \/ \E failure \in FailsOver : NotConfigured(failure)
  /\ UNCHANGED <<machine, runs, process, store, login, gpParams>>

RetrieveCscConfig ==
  /\ pc = "csc"
  /\ \E criteria \in Criteria :
       \/ /\ criteria.cookie = Blank
          /\ NotConfigured("idle") /\ UNCHANGED sent
       \/ LET request == CscRequest(machine, profile, criteria)
          IN  /\ criteria.cookie # Blank
              /\ sent' = [Request("csc", "portal", Portal,
                                  [passwd |-> Blank, hostId |-> request.hostId], Blank)
                          EXCEPT !.answers = request.answers]
              /\ \/ Configured
                 \/ \E failure \in FailsOver : NotConfigured(failure)
  /\ UNCHANGED <<machine, runs, process, store, login, gpParams>>

-----------------------------------------------------------------------------
(* connect_gateway_with_fallback.                                          *)

Gateway == config[1].gateways[next]

\* A failure before the tunnel: the next gateway if --auto-gateway tries them
\* all, else the end of connect_portal_with_prelogin with that failure.
BeforeTunnel(failure) ==
  IF args.auto /\ next < Len(config[1].gateways)
  THEN pc' = "gatewayPrelogin" /\ next' = next + 1
  ELSE pc' = (IF args.auto THEN "idle" ELSE failure) /\ UNCHANGED next

\* The portal's cookies come first, if a gateway can take them.
GatewayPrelogin ==
  /\ pc = "gatewayPrelogin"
  /\ SendPrelogin(Gateway.address, TRUE)
  /\ \/ /\ PreloginAnswers(Gateway.address, TRUE, GatewayBrowserAllowed(config[1].defaultBrowser))
        /\ IF CanAuthenticateGateway(config[1].authCookie)
           THEN LogIn("portalCookie", Gateway.address, config[1].authCookie)
           ELSE pc' = "gatewayCredential" /\ NoLogIn
        /\ UNCHANGED next
     \/ /\ prelogin' = NoPrelogin
        /\ \E failure \in FailsOver : BeforeTunnel(failure)
        /\ NoLogIn
  /\ UNCHANGED <<machine, runs, process, store, config>>

GatewayCredential ==
  /\ pc = "gatewayCredential"
  /\ Launch(GatewayBrowserAllowed(config[1].defaultBrowser))
  /\ \/ \E cred \in Candidates : LogIn("fallback", Gateway.address, cred) /\ UNCHANGED next
     \/ ObtainFails /\ BeforeTunnel("idle") /\ NoLogIn
  /\ prelogin' = NoPrelogin
  /\ UNCHANGED <<machine, runs, args, root, locked, stdin, profile, store, config>>

-----------------------------------------------------------------------------
(* login_gateway.                                                          *)

\* What becomes of a login that fails.
LoginFails ==
  \/ /\ login.route = "cached"
     /\ pc' = "portalPrelogin" /\ store' = Clear /\ UNCHANGED next
  \/ /\ login.route = "portalCookie"
     /\ pc' = "gatewayCredential" /\ UNCHANGED <<store, next>>
  \/ /\ login.route = "fallback"
     /\ BeforeTunnel("idle") /\ UNCHANGED store
  \/ /\ login.route = "direct"
     /\ pc' = "idle" /\ UNCHANGED <<store, next>>

\* The password that the user enters for a challenge, which names the login
\* that it was asked in.
OtpFor(attempt) == <<"otp", attempt.server, attempt.route>>
InputFor(attempt) == <<"input", attempt.server, attempt.route>>

Challenge ==
  /\ gpParams.challenges < MaxChallenges
  /\ gpParams' = [otp |-> OtpFor(login), input |-> InputFor(login),
                  challenges |-> gpParams.challenges + 1]

\* What a login ends with: arguments of which some are for this host.
Token(server) == Issued(server, "token", profile.hostId)

LoginGateway ==
  /\ pc = "login"
  /\ SendLogin("login")
  /\ \/ /\ login' = [login EXCEPT !.token = Token(login.server)]
        /\ pc' = "loggedIn" /\ UNCHANGED <<store, next, gpParams>>
     \/ Challenge /\ UNCHANGED <<pc, store, next, login>>
     \/ LoginFails /\ NoLogIn
  /\ UNCHANGED <<machine, runs, process, prelogin, config>>

-----------------------------------------------------------------------------
(* connect_gateway.                                                        *)

\* The cookies of the portal are kept with the gateway that took them.
SavesCookie == login.route = "portalCookie" /\ args.cookieCache

\* A failure before there is a tunnel, by the way that led to the gateway.
ConnectError ==
  CASE login.route = "cached" -> pc' = "portalPrelogin" /\ UNCHANGED next
    [] login.route = "direct" -> pc' = "idle" /\ UNCHANGED next
    [] OTHER                  -> BeforeTunnel("idle")

\* The user of the HIP script is not there, or a script cannot be executed.
NotBuilt == ConnectError

LoggedIn ==
  /\ pc = "loggedIn"
  /\ store' = IF SavesCookie
              THEN Save(StoredCookie(Portal, profile.seed, login.server, config[1].authCookie))
              ELSE store
  /\ \/ args.cookieOnly /\ pc' = "idle" /\ UNCHANGED next
     \/ ~args.cookieOnly /\ pc' = "connecting" /\ UNCHANGED next
     \/ ~args.cookieOnly /\ NotBuilt
  /\ prelogin' = NoPrelogin
  /\ UNCHANGED <<machine, runs, process, config, login, gpParams, sent>>

\* OpenConnect fails before there is a tunnel.
ConnectFails ==
  /\ pc = "connecting" /\ ConnectError
  /\ NoLogIn
  /\ UNCHANGED <<machine, runs, process, store, prelogin, config, sent>>

Established ==
  /\ pc = "connecting" /\ pc' = "tunnel"
  /\ UNCHANGED <<machine, runs, process, store, prelogin, config, next, login,
                 gpParams, sent>>

\* After the tunnel, or a signal before it, the run ends, unless what fails
\* is the tunnel of a cached cookie.
TunnelEnds ==
  /\ pc \in {"connecting", "tunnel"}
  /\ pc' \in {"idle"} \cup (IF login.route = "cached" THEN {"portalPrelogin"} ELSE {})
  /\ UNCHANGED <<machine, runs, process, store, prelogin, config, next, login,
                 gpParams, sent>>

\* The user whom OpenConnect runs the HIP script as: named, found or root.
HipUsers == {FALSE, root}

\* OpenConnect runs gpclient hip with the seed of the profile and posts its
\* report with the token.
Hip ==
  /\ pc \in {"connecting", "tunnel"} /\ args.hip
  /\ \E asRoot \in HipUsers :
       LET report == HipReport(machine, asRoot, profile.os, profile.seed)
       IN  /\ sent' = [Request("hip", "gateway", login.server,
                               [passwd |-> Blank, token |-> login.token], Blank)
                       EXCEPT !.host = report.hostId, !.answers = report.posture]
  /\ UNCHANGED <<machine, runs, process, pc, store, prelogin, config, next, login,
                 gpParams>>

\* extend_session logs in once more with what the login ended with.
MayExtend == login.route \in {"portalCookie", "fallback"} /\ config[1].extend

Extend ==
  /\ pc = "tunnel" /\ MayExtend
  /\ SendLogin("extend")
  /\ UNCHANGED <<machine, runs, process, pc, store, prelogin, config, next, login,
                 gpParams>>

-----------------------------------------------------------------------------
Next ==
  \/ Start \/ HandleImpl \/ Locked
  \/ PortalPrelogin \/ PortalCredential \/ RetrieveConfig \/ RetrieveCscConfig
  \/ GatewayPrelogin \/ GatewayCredential
  \/ DirectPrelogin \/ DirectCredential
  \/ LoginGateway \/ LoggedIn
  \/ ConnectFails \/ Established \/ Hip \/ Extend \/ TunnelEnds

Spec == Init /\ [][Next]_vars

-----------------------------------------------------------------------------
(***************************************************************************)
(* Safety properties.                                                      *)
(***************************************************************************)

\* A server ties each cookie to the host id it was asked for with (host-id of
\* prelogin, getconfig and login; os_profile/mod.rs projects it).  Whatever
\* cookie a request shows, the request names the host the cookie is for:
\* through gpauth started by gpclient or before it in a pipe, as root or not,
\* through portal and gateway, in the HIP report and in an extension.  A
\* cached cookie is shown by a host of the same seed, though maybe as another
\* operating system.
CredentialShowsItsHost ==
  \A text \in {t \in sent.texts : IsIssued(t)} :
    IF sent.route = "cached" /\ Issuer(text)[2] = "config"
    THEN \E os \in ClientOs :
           IssuedTo(text) = OsProfile(machine, root, os, profile.seed, Blank).hostId
    ELSE IssuedTo(text) = sent.host

\* A single sign-on cookie goes to the server, and to the role of that server,
\* whose prelogin it answers, and a session's token to its gateway; only the
\* cookies of the portal's configuration go to gateways of another address.
CredentialScope ==
  \A text \in {t \in sent.texts : IsIssued(t)} :
    LET kind == Issuer(text)[2]
    IN  IF kind = "config" THEN sent.role = "gateway"
        ELSE /\ Issuer(text)[1] = sent.server
             /\ kind \in {sent.role, "token"}

\* A request shows a one-time password, and the input string of a challenge,
\* only after a challenge of the same login: not to the next gateway, nor with
\* the credential that replaces the one it was asked for with.
OtpAnswersChallenge ==
  \A text \in {sent.passwd, sent.input} :
    text # Blank /\ Head(text) \in {"otp", "input"} =>
      Tail(text) = <<sent.server, sent.route>>

\* The browser is the one that the prelogin announced to the server: the
\* user's own if it was asked for and the server takes it, else the embedded
\* one (default-browser of the prelogin, --browser of gpauth).
BrowserAsAnnounced ==
  [][sent'.endpoint = "gpauth" /\ sent' # sent =>
       (sent'.browser = "external" <=>
          prelogin.external /\ prelogin.announced = ExternalBrowser(profile.os))]_vars

\* No gateway comes before the first one of a configuration that has been
\* sorted: neither by a rule for the region that the portal named nor, if
\* there is no rule at all, by its own priority.  The preferred gateway is
\* looked for by its name, so this is said of gateways with different names.
Ranks(gateway) == {rule.priority : rule \in Matching(gateway, prelogin.region)}

NamesDiffer(gateways) ==
  \A i, j \in DOMAIN gateways : gateways[i].name = gateways[j].name => i = j

PreferredFirst ==
  [][config' \notin {config, <<>>} =>
       LET gateways == config'[1].gateways
           all      == ToSet(gateways)
           first    == Head(gateways)
       IN  NamesDiffer(gateways) =>
             \/ \E p \in Ranks(first) : \A gateway \in all : \A q \in Ranks(gateway) : p <= q
             \/ \A gateway \in all : Ranks(gateway) = {} /\ first.priority <= gateway.priority
    ]_vars
=============================================================================
