---------------------------- MODULE Login_proofs ----------------------------
(***************************************************************************)
(* Whatever machine, command line, portal and gateway: a request shows a   *)
(* cookie only as the host it was issued to and only to the server it is   *)
(* for, a one-time password only to whom asked for it, and what it says of *)
(* browsers is so.                                                         *)
(***************************************************************************)
EXTENDS Login, SequenceTheorems, WellFoundedInduction, TLAPS

-----------------------------------------------------------------------------
(* Texts.                                                                  *)

\* The strings, of which the provers know those that are named.
Words == STRING \cup {"uuid", "mac", "colons", "runtime-mac", "runtime-host-id",
                      "os-profile", "Linux", "Windows", "Mac", "host-id"}
Texts == Seq(Words)

\* What no server has issued.
PlainTexts == {text \in Texts : ~IsIssued(text)}

LEMMA TextOfStrings ==
  ASSUME NEW text \in Seq(STRING)
  PROVE  text \in Texts
BY SeqMonotonic DEF Texts, Words

LEMMA WordsAreText ==
  ASSUME NEW a \in Words, NEW b \in Words, NEW c \in Words
  PROVE  <<>> \in Texts /\ <<a>> \in Texts /\ <<a, b, c>> \in Texts
BY DEF Texts

\* A text that begins with another word than "issued" is plain.
LEMMA PlainBegins ==
  ASSUME NEW word \in Words, word # "issued", NEW text \in Texts
  PROVE  /\ <<word>> \o text \in PlainTexts
         /\ <<word>> \o text # Blank
         /\ Head(<<word>> \o text) = word
BY DEF PlainTexts, IsIssued, Texts, Blank

\* What is issued names its issuer, its kind and its host.
LEMMA IssuedNames ==
  ASSUME NEW server, NEW kind, NEW host \in Texts
  PROVE  LET text == Issued(server, kind, host)
         IN  /\ IsIssued(text)
             /\ text # Blank
             /\ Head(text) = "issued"
             /\ Issuer(text) = <<server, kind>>
             /\ IssuedTo(text) = host
<1> DEFINE S    == Words \cup {"issued", server, kind}
           text == Issued(server, kind, host)
           mark == <<"issued", server, kind>>
<1>1. mark \in Seq(S) /\ Len(mark) = 3 /\ host \in Seq(S)
  <2>1. mark \in Seq(S) /\ Len(mark) = 3
    BY DEF S
  <2>2. host \in Seq(S)
    BY SeqMonotonic DEF Texts
  <2> QED BY <2>1, <2>2
<1>2. /\ text \in Seq(S) /\ Len(text) = 3 + Len(host)
      /\ \A i \in 1..Len(text) : text[i] = IF i <= 3 THEN mark[i] ELSE host[i - 3]
  BY <1>1, ConcatProperties DEF Issued
<1>3. text # Blank /\ Head(text) = "issued" /\ Issuer(text) = <<server, kind>>
  BY <1>1, <1>2 DEF Issuer, Blank
<1>4. IssuedTo(text) = host
  <2>1. /\ SubSeq(text, 4, Len(text)) \in Seq(S)
        /\ Len(SubSeq(text, 4, Len(text))) = Len(host)
        /\ \A i \in 1..Len(host) : SubSeq(text, 4, Len(text))[i] = host[i]
    BY <1>1, <1>2, SubSeqProperties
  <2> QED BY <2>1, <1>1, SeqEqual DEF IssuedTo
<1> QED BY <1>3, <1>4 DEF IsIssued

-----------------------------------------------------------------------------
(* The first of a list.                                                    *)

\* A nonempty set of naturals has a least member.
LEMMA LeastIs ==
  ASSUME NEW S \in SUBSET Nat, S # {}
  PROVE  Min(S) \in S /\ \A n \in S : Min(S) <= n
<1> DEFINE Below == OpToRel(<, Nat)
<1>1. \E least \in S : \A n \in S : ~ (<<n, least>> \in Below)
  BY NatLessThanWellFounded, WFMin
<1>2. Below = {p \in Nat \X Nat : p[1] < p[2]}
  BY Zenon DEF OpToRel
<1> HIDE DEF Below
<1>3. PICK least \in S : \A n \in S : ~ (<<n, least>> \in Below)
  BY <1>1
<1>4. \A n \in S : least <= n
  <2> SUFFICES ASSUME NEW n \in S, n < least
               PROVE  FALSE
    OBVIOUS
  <2>1. <<n, least>> \in Nat \X Nat /\ <<n, least>>[1] = n /\ <<n, least>>[2] = least
    OBVIOUS
  <2>2. <<n, least>> \in Below
    BY <2>1, <1>2
  <2> QED BY <2>2, <1>3
<1> QED BY <1>4 DEF Min

\* FirstOf chooses among the texts and the fallback, and passes over blanks.
LEMMA FirstOfOne ==
  ASSUME NEW text, NEW fallback
  PROVE  FirstOf(<<text>>, fallback) = IF text # Blank THEN text ELSE fallback
<1> DEFINE I == {i \in 1..Len(<<text>>) : <<text>>[i] # Blank}
<1>1. CASE text # Blank
  <2>1. I = {1}
    BY <1>1
  <2>2. Min(I) = 1
    BY <2>1, LeastIs
  <2> QED BY <1>1, <2>1, <2>2 DEF FirstOf, SelectInSeq
<1>2. CASE text = Blank
  <2>1. I = {}
    BY <1>2
  <2> QED BY <1>2, <2>1 DEF FirstOf, SelectInSeq
<1> QED BY <1>1, <1>2

LEMMA FirstOfTwo ==
  ASSUME NEW a, NEW b, NEW fallback
  PROVE  FirstOf(<<a, b>>, fallback) \in {a, b, fallback}
<1> DEFINE I == {i \in 1..Len(<<a, b>>) : <<a, b>>[i] # Blank}
<1>1. CASE I # {}
  <2>1. Min(I) \in I
    BY <1>1, LeastIs
  <2> HIDE DEF I
  <2>2. Min(I) \in 1..2
    BY <2>1 DEF I
  <2>3. FirstOf(<<a, b>>, fallback) = <<a, b>>[Min(I)]
    BY <1>1, <2>2 DEF FirstOf, SelectInSeq, I
  <2> QED BY <2>2, <2>3
<1>2. CASE I = {}
  BY <1>2 DEF FirstOf, SelectInSeq
<1> QED BY <1>1, <1>2

-----------------------------------------------------------------------------
(* Hosts.                                                                  *)

\* The host id that is shown for a seed as an operating system.
ShownId(m, os, seed) == OsProfile(m, FALSE, os, seed, Blank).hostId

SolidTexts == PlainTexts \ {Blank}

LEMMA SolidFollowed ==
  ASSUME NEW text \in SolidTexts, NEW rest \in Texts
  PROVE  text \o rest \in SolidTexts
<1>1. text \in Texts /\ text # <<>> /\ text[1] # "issued"
  BY DEF SolidTexts, PlainTexts, IsIssued, Texts, Blank
<1>2. /\ text \o rest \in Texts
      /\ Len(text \o rest) > 0
      /\ (text \o rest)[1] = text[1]
  BY <1>1, ConcatProperties, EmptySeq, LenProperties DEF Texts
<1>3. text \o rest # <<>> /\ Head(text \o rest) # "issued"
  BY <1>1, <1>2 DEF Texts
<1> QED BY <1>2, <1>3 DEF SolidTexts, PlainTexts, IsIssued, Blank

\* What is derived from a text is plain.
LEMMA DerivedIsSolid ==
  ASSUME NEW seed \in Texts, NEW parts \in Texts
  PROVE  DeriveUuid(seed, parts) \in SolidTexts /\ DeriveMac(seed, parts) \in SolidTexts
<1>1. <<"uuid">> \o seed \in SolidTexts
  BY PlainBegins DEF SolidTexts, Words
<1>2. DeriveUuid(seed, parts) \in SolidTexts
  BY <1>1, SolidFollowed DEF DeriveUuid
<1>3. <<"mac">> \o DeriveUuid(seed, parts) \in SolidTexts
  BY <1>2, PlainBegins DEF SolidTexts, Words, PlainTexts
<1> QED BY <1>2, <1>3 DEF DeriveMac

\* Whatever the machine says of itself, its host id is plain, if not blank.
LEMMA NativeIsPlain ==
  ASSUME NEW m \in Machines, NEW asRoot
  PROVE  NativeHostId(m, asRoot) \in PlainTexts
<1>1. \A text \in MachineTexts(m) : text \in PlainTexts
  BY LoginAssumption, TextOfStrings DEF PlainTexts
<1>2. m.os \in {"Linux", "Windows", "Mac"}
  BY LoginAssumption DEF ClientOs
<1>3. Blank \in PlainTexts
  BY DEF Blank, PlainTexts, Texts, IsIssued
<1>4. CASE m.os = "Linux"
  <2>1. FirmwareId(m, asRoot) \in PlainTexts
    BY <1>1, <1>3 DEF FirmwareId, MachineTexts
  <2>2. FirstOf(<<m.machineId, m.dbusId>>, m.hostname) \in Texts
    BY <1>1, FirstOfTwo DEF MachineTexts, PlainTexts
  <2>3. <<>> \in Texts
    BY DEF Texts
  <2> HIDE DEF Texts
  <2>4. DeriveUuid(FirstOf(<<m.machineId, m.dbusId>>, m.hostname), <<>>) \in PlainTexts
    BY <2>2, <2>3, DerivedIsSolid DEF SolidTexts
  <2>5. LinuxHostId(m, asRoot) \in PlainTexts
    BY <2>1, <2>4, FirstOfOne DEF LinuxHostId, NonEmpty
  <2> QED BY <1>4, <2>5 DEF NativeHostId
<1>5. CASE m.os = "Windows"
  <2>1. WindowsHostId(m) \in PlainTexts
    BY <1>1, FirstOfTwo DEF WindowsHostId, MachineTexts
  <2> QED BY <1>5, <2>1 DEF NativeHostId
<1>6. CASE m.os = "Mac"
  <2>1. MacNative(m) \in PlainTexts
    BY <1>1, <1>3, FirstOfTwo DEF MacNative, MachineTexts
  <2>2. m.hostname \in Texts /\ <<"runtime-mac">> \in Texts
    BY <1>1, WordsAreText DEF MachineTexts, PlainTexts, Words
  <2>3. DeriveMac(m.hostname, <<"runtime-mac">>) \in PlainTexts
    BY <2>2, DerivedIsSolid DEF SolidTexts
  <2>4. MacHostId(m) \in PlainTexts
    BY <2>1, <2>3, FirstOfOne DEF MacHostId, NonEmpty
  <2> QED BY <1>6, <2>4 DEF NativeHostId
<1> QED BY <1>2, <1>4, <1>5, <1>6

LEMMA IdentityOfSeed ==
  ASSUME NEW m \in Machines, NEW asRoot, NEW seed \in PlainTexts
  PROVE  LET id == HostIdentity(m, asRoot, seed).hostId
         IN  id \in SolidTexts /\ (seed # Blank => id = seed)
<1>1. m.hostname \in Texts /\ <<"runtime-host-id">> \in Texts
  BY LoginAssumption, WordsAreText, TextOfStrings DEF MachineTexts, Words
<1>2. DeriveUuid(m.hostname, <<"runtime-host-id">>) \in SolidTexts
  BY <1>1, DerivedIsSolid
<1> QED BY <1>2, NativeIsPlain, FirstOfOne DEF HostIdentity, NonEmpty, SolidTexts

LEMMA ProjectOfId ==
  ASSUME NEW m, NEW os \in ClientOs, NEW one, NEW other, one.hostId = other.hostId
  PROVE  Project(m, os, one).hostId = Project(m, os, other).hostId
<1>1. CASE os = m.os
  BY <1>1 DEF Project, NativeProfile
<1>2. CASE os # m.os
  BY <1>2 DEF Project, ClientOs
<1> QED BY <1>1, <1>2

\* A profile has a seed, the one that it was given if it was given one, and
\* shows what anyone shows for that seed: root or not.
LEMMA ProfileOfSeed ==
  ASSUME NEW m \in Machines, NEW asRoot, NEW os \in ClientOs, NEW seed \in PlainTexts,
         NEW computer
  PROVE  LET p == OsProfile(m, asRoot, os, seed, computer)
         IN  /\ p.os = os
             /\ p.seed \in SolidTexts
             /\ seed # Blank => p.seed = seed
             /\ p.hostId = ShownId(m, os, p.seed)
<1> DEFINE p        == OsProfile(m, asRoot, os, seed, computer)
           identity == HostIdentity(m, asRoot, seed)
           again    == HostIdentity(m, FALSE, identity.hostId)
<1>1. identity.hostId \in SolidTexts /\ (seed # Blank => identity.hostId = seed)
  BY IdentityOfSeed
<1>2. again.hostId = identity.hostId
  BY <1>1, IdentityOfSeed DEF SolidTexts
<1>3. Project(m, os, identity).hostId = Project(m, os, again).hostId
  BY <1>2, ProjectOfId
<1>4. p.seed = identity.hostId /\ p.os = os /\ p.hostId = Project(m, os, identity).hostId
  BY DEF OsProfile
<1>5. ShownId(m, os, p.seed) = Project(m, os, again).hostId
  BY <1>4 DEF ShownId, OsProfile
<1> QED BY <1>1, <1>3, <1>4, <1>5

\* What is shown for a seed is plain.
LEMMA ShownIsSolid ==
  ASSUME NEW m \in Machines, NEW os \in ClientOs, NEW seed \in SolidTexts
  PROVE  ShownId(m, os, seed) \in SolidTexts
<1> DEFINE identity == HostIdentity(m, FALSE, seed)
<1>1. identity.hostId = seed
  BY FirstOfOne DEF HostIdentity, NonEmpty, SolidTexts
<1>2. os \in {"Linux", "Windows", "Mac"} /\ seed \in Texts
  BY DEF ClientOs, SolidTexts, PlainTexts
<1>3. Colons(seed) \in SolidTexts
  BY <1>2, PlainBegins DEF Words, Colons, SolidTexts
<1>4. NativeProfile(os, identity).hostId \in SolidTexts
  BY <1>1, <1>3 DEF NativeProfile
<1>5. LinuxProfile(seed).hostId \in SolidTexts /\ WindowsProfile(seed).hostId \in SolidTexts
      /\ MacProfile(seed).hostId \in SolidTexts
  <2>1. <<"os-profile", "Linux", "host-id">> \in Texts
        /\ <<"os-profile", "Windows", "host-id">> \in Texts
        /\ <<"os-profile", "Mac", "mac">> \in Texts
    BY WordsAreText DEF Words
  <2> QED BY <2>1, <1>2, DerivedIsSolid
          DEF LinuxProfile, WindowsProfile, MacProfile, ProfileUuid, ProfileMac
<1>7. Project(m, os, identity).hostId \in SolidTexts
  BY <1>1, <1>2, <1>4, <1>5 DEF Project
<1> QED BY <1>7 DEF ShownId, OsProfile
-----------------------------------------------------------------------------
(***************************************************************************)
(* The invariant.                                                          *)
(***************************************************************************)

\* The cookies of the portal's configuration for a host, and the credentials
\* that they make.
ConfigTexts(host) == {Issued(Portal, "config", host), Empty, Blank}
AuthCookies(host) ==
  [type : {"authCookie"}, userCookie : ConfigTexts(host), prelogonCookie : ConfigTexts(host),
   passwd : {Blank, <<"password">>}]

\* What can answer the prelogin of a server, in its role, for a host.
SsoCreds(server, role, host) ==
  {Password(<<"password">>)} \cup SamlForms(Issued(server, role, host))

\* The process shows the host of its seed.
ProfileInv ==
  /\ machine \in Machines /\ args \in Arguments
  /\ profile.os = args.os
  /\ profile.seed \in SolidTexts
  /\ profile.hostId = ShownId(machine, profile.os, profile.seed)

\* The result on standard input is gpauth's for the same command line, and
\* once the run has begun its seed is the profile's.
StdinInv ==
  /\ stdin # <<>> => args.cookieOnStdin /\ stdin[1] \in AuthResults(args)
  /\ pc # "idle" /\ args.cookieOnStdin => stdin # <<>>
  /\ pc \notin {"idle", "begin"} /\ stdin # <<>> /\ stdin[1].line = "success" => stdin[1].seed = profile.seed
  /\ "cached" \in {login.route, sent.route} => stdin = <<>>

\* The cookie that is kept is for the host that its seed is shown as.
StoreInv ==
  store # <<>> =>
    \E os \in ClientOs : store[1].authCookie \in AuthCookies(ShownId(machine, os, store[1].seed))

\* What goes by way of the portal is not told to go to a gateway.
PortalPcs    == {"portalPrelogin", "portalCredential", "getConfig", "csc",
                 "gatewayPrelogin", "gatewayCredential"}
PortalRoutes == {"cached", "portalCookie", "fallback"}
PortalInv == pc \in PortalPcs \/ login.route \in PortalRoutes => ~args.asGateway

\* The prelogin is the one that the credential is wanted for.
PreloginOf(server, isGateway, allowed) ==
  /\ prelogin.server = server
  /\ prelogin.isGateway = isGateway
  /\ prelogin.announced = Announced(isGateway, allowed)
PreloginInv ==
  /\ pc = "portalCredential" => PreloginOf(Portal, FALSE, FALSE)
  /\ pc = "directCredential" => PreloginOf(Portal, TRUE, TRUE)
  /\ pc = "gatewayCredential" \/ (pc = "login" /\ login.route = "portalCookie") =>
       PreloginOf(Gateway.address, TRUE, GatewayBrowserAllowed(config[1].defaultBrowser))

\* A configuration's cookies are for the host that asked for it.
SessionPcs == {"login", "loggedIn", "connecting", "tunnel"}
ConfigInv ==
  \/ pc \in {"gatewayPrelogin", "gatewayCredential"}
  \/ pc \in SessionPcs /\ login.route \in {"portalCookie", "fallback"}
  => config[1].authCookie \in AuthCookies(profile.hostId)

\* Where the credential of a login comes from, by its route.
CredentialOfRoute ==
  \/ /\ login.route = "cached"
     /\ \E os \in ClientOs : login.cred \in AuthCookies(ShownId(machine, os, profile.seed))
  \/ /\ login.route = "portalCookie"
     /\ login.cred \in AuthCookies(profile.hostId)
  \/ /\ login.route \in {"fallback", "direct"}
     /\ login.cred \in SsoCreds(login.server, "gateway", profile.hostId)

\* What was entered for a challenge belongs to the login that asked for it.
ChallengeInv ==
  /\ gpParams.otp \in {Blank, OtpFor(login)}
  /\ gpParams.input \in {Blank, InputFor(login)}

SessionInv ==
  /\ pc \in {"getConfig", "csc"} =>
       login.route = "portal" /\ login.cred \in SsoCreds(Portal, "portal", profile.hostId)
  /\ pc \in SessionPcs =>
       CredentialOfRoute /\ ChallengeInv /\ login.token \in {Blank, Token(login.server)}

LoginInv ==
  /\ ProfileInv /\ StdinInv /\ StoreInv /\ PortalInv
  /\ PreloginInv /\ ConfigInv /\ SessionInv

-----------------------------------------------------------------------------
(* What a request shows.                                                   *)

\* What the properties ask of a request, made on this machine with this seed.
ShowsHost(request, m, seed) ==
  \A text \in {t \in request.texts : IsIssued(t)} :
    IF request.route = "cached" /\ Issuer(text)[2] = "config"
    THEN \E os \in ClientOs : IssuedTo(text) = ShownId(m, os, seed)
    ELSE IssuedTo(text) = request.host

InScope(request) ==
  \A text \in {t \in request.texts : IsIssued(t)} :
    LET kind == Issuer(text)[2]
    IN  IF kind = "config" THEN request.role = "gateway"
        ELSE /\ Issuer(text)[1] = request.server
             /\ kind \in {request.role, "token"}

AnswersChallenge(request) ==
  \A text \in {request.passwd, request.input} :
    text # Blank /\ Head(text) \in {"otp", "input"} =>
      Tail(text) = <<request.server, request.route>>

RequestOk(request, m, seed) ==
  ShowsHost(request, m, seed) /\ InScope(request) /\ AnswersChallenge(request)

\* The passwords that no challenge asked for.
Secrets == {Blank, <<"password">>, <<"SAMLPASS">>}

LEMMA SecretsArePlain ==
  \A text \in Secrets \cup {Empty} :
    ~IsIssued(text) /\ (text # Blank => Head(text) \notin {"otp", "input"})
BY DEF Secrets, Empty, Blank, IsIssued

LEMMA RequestHas ==
  ASSUME NEW endpoint, NEW role, NEW server, NEW params, NEW input
  PROVE  LET request == Request(endpoint, role, server, params, input)
         IN  /\ request.endpoint = endpoint /\ request.role = role
             /\ request.server = server /\ request.route = login.route
             /\ request.host = profile.hostId
             /\ request.texts = {params[p] : p \in DOMAIN params}
             /\ request.passwd = params.passwd /\ request.input = input
             /\ request.answers = {}
BY DEF Request, NoRequest

\* The parameters of a login, by what there is to show.
LEMMA ParamsShow ==
  ASSUME NEW w, NEW a, NEW b, NEW c, NEW d
  PROVE  LET params == [passwd |-> w, preloginCookie |-> a, userCookie |-> b,
                        prelogonCookie |-> c, token |-> d]
         IN  {params[p] : p \in DOMAIN params} = {w, a, b, c, d}
<1> DEFINE params == [passwd |-> w, preloginCookie |-> a, userCookie |-> b,
                      prelogonCookie |-> c, token |-> d]
<1>1. DOMAIN params = {"passwd", "preloginCookie", "userCookie", "prelogonCookie", "token"}
  OBVIOUS
<1>2. /\ params["passwd"] = w /\ params["preloginCookie"] = a /\ params["userCookie"] = b
      /\ params["prelogonCookie"] = c /\ params["token"] = d
  OBVIOUS
<1> HIDE DEF params
<1>3. {params[p] : p \in DOMAIN params} = {w, a, b, c, d}
  BY <1>1, <1>2
<1> QED BY <1>3 DEF params

LEMMA SsoShows ==
  ASSUME NEW server, NEW role, NEW host \in Texts, NEW cred \in SsoCreds(server, role, host),
         NEW os, NEW otp
  PROVE  LET params == LoginParams(cred, os, otp)
         IN  /\ params.passwd \in Secrets \/ (otp # Blank /\ params.passwd = otp)
             /\ {params[p] : p \in DOMAIN params} \subseteq
                  {params.passwd, Blank, Empty, Issued(server, role, host)}
<1> DEFINE params == LoginParams(cred, os, otp)
           cookie == Issued(server, role, host)
<1>1. cookie # Blank
  BY IssuedNames
<1>2. NonEmpty(Blank, Empty) = Empty /\ NonEmpty(cookie, Empty) = cookie
  BY <1>1, FirstOfOne DEF NonEmpty
<1>3. \A text : NonEmpty(otp, text) = IF otp # Blank THEN otp ELSE text
  BY FirstOfOne DEF NonEmpty
<1>4. SamlPassword(os) \in Secrets /\ <<"password">> \in Secrets
  BY DEF SamlPassword, Secrets
<1>5. CASE cred = Password(<<"password">>)
  <2>1. params = [passwd |-> NonEmpty(otp, <<"password">>), preloginCookie |-> Blank,
                  userCookie |-> Empty, prelogonCookie |-> Empty, token |-> Blank]
    BY <1>5 DEF LoginParams, Password
  <2> HIDE DEF params
  <2> QED BY <2>1, <1>3, <1>4, ParamsShow DEF params
<1>6. CASE cred = Prelogin(cookie, Blank, Blank)
  <2>1. params = [passwd |-> NonEmpty(otp, SamlPassword(os)), preloginCookie |-> cookie,
                  userCookie |-> Empty, prelogonCookie |-> Empty, token |-> Blank]
    BY <1>2, <1>6 DEF LoginParams, Prelogin, PortalCookieParam
  <2> HIDE DEF params
  <2> QED BY <2>1, <1>3, <1>4, ParamsShow DEF params
<1>7. CASE cred = Prelogin(Blank, cookie, Blank)
  <2>1. params = [passwd |-> NonEmpty(otp, SamlPassword(os)), preloginCookie |-> Blank,
                  userCookie |-> cookie, prelogonCookie |-> Empty, token |-> Blank]
    BY <1>2, <1>7 DEF LoginParams, Prelogin, PortalCookieParam
  <2> HIDE DEF params
  <2> QED BY <2>1, <1>3, <1>4, ParamsShow DEF params
<1>8. CASE cred = Prelogin(cookie, cookie, Blank)
  <2>1. params = [passwd |-> NonEmpty(otp, SamlPassword(os)), preloginCookie |-> cookie,
                  userCookie |-> cookie, prelogonCookie |-> Empty, token |-> Blank]
    BY <1>2, <1>8 DEF LoginParams, Prelogin, PortalCookieParam
  <2> HIDE DEF params
  <2> QED BY <2>1, <1>3, <1>4, ParamsShow DEF params
<1>9. CASE cred = Prelogin(Blank, Blank, cookie)
  <2>1. params = [passwd |-> NonEmpty(otp, SamlPassword(os)), preloginCookie |-> Blank,
                  userCookie |-> Empty, prelogonCookie |-> Empty, token |-> cookie]
    BY <1>2, <1>9 DEF LoginParams, Prelogin, PortalCookieParam
  <2> HIDE DEF params
  <2> QED BY <2>1, <1>3, <1>4, ParamsShow DEF params
<1> QED BY <1>5, <1>6, <1>7, <1>8, <1>9 DEF SsoCreds, SamlForms

LEMMA CookiesShow ==
  ASSUME NEW host \in Texts, NEW cred \in AuthCookies(host), NEW os, NEW otp
  PROVE  LET params == LoginParams(cred, os, otp)
         IN  /\ params.passwd \in Secrets \/ (otp # Blank /\ params.passwd = otp)
             /\ {params[p] : p \in DOMAIN params} \subseteq
                  {params.passwd, Blank, Empty, Issued(Portal, "config", host)}
<1> DEFINE params == LoginParams(cred, os, otp)
           secret == NonEmpty(cred.passwd, SamlPassword(os))
<1>1. /\ cred.type = "authCookie"
      /\ cred.userCookie \in ConfigTexts(host) /\ cred.prelogonCookie \in ConfigTexts(host)
      /\ cred.passwd \in {Blank, <<"password">>}
  BY DEF AuthCookies
<1>2. \A text \in ConfigTexts(host) :
        PortalCookieParam(text) \in {Empty, Issued(Portal, "config", host)}
  BY FirstOfOne DEF ConfigTexts, PortalCookieParam, NonEmpty
<1>3. \A text : NonEmpty(otp, text) = IF otp # Blank THEN otp ELSE text
  BY FirstOfOne DEF NonEmpty
<1>4. secret \in Secrets
  BY <1>1, FirstOfOne DEF SamlPassword, Secrets, NonEmpty
<1>5. params = [passwd |-> NonEmpty(otp, secret), preloginCookie |-> Blank,
                userCookie |-> PortalCookieParam(cred.userCookie),
                prelogonCookie |-> PortalCookieParam(cred.prelogonCookie), token |-> Blank]
  BY <1>1 DEF LoginParams
<1> HIDE DEF params, secret
<1>6. /\ PortalCookieParam(cred.userCookie) \in {Empty, Issued(Portal, "config", host)}
      /\ PortalCookieParam(cred.prelogonCookie) \in {Empty, Issued(Portal, "config", host)}
  BY <1>1, <1>2
<1>7. {params[p] : p \in DOMAIN params} =
        {NonEmpty(otp, secret), Blank, PortalCookieParam(cred.userCookie),
         PortalCookieParam(cred.prelogonCookie), Blank}
  BY <1>5, ParamsShow
<1>8. params.passwd = NonEmpty(otp, secret)
  BY <1>5
<1>9. params.passwd \in Secrets \/ (otp # Blank /\ params.passwd = otp)
  BY <1>3, <1>4, <1>8
<1> QED BY <1>6, <1>7, <1>8, <1>9 DEF params

\* A request that shows one cookie and no answer to a challenge.
LEMMA NothingShown ==
  ASSUME NEW endpoint, NEW role, NEW server
  PROVE  LET request == Request(endpoint, role, server, NoParams, Blank)
         IN  request.texts = {Blank} /\ request.passwd = Blank /\ request.input = Blank
<1>1. {NoParams[p] : p \in DOMAIN NoParams} = {Blank} /\ NoParams.passwd = Blank
  BY DEF NoParams
<1> QED BY <1>1, RequestHas

\* A request that shows plain texts and no answer to a challenge is in order.
LEMMA PlainRequestOk ==
  ASSUME NEW request, NEW m, NEW seed,
         \A text \in request.texts : ~IsIssued(text),
         request.passwd = Blank, request.input = Blank
  PROVE  RequestOk(request, m, seed)
BY DEF RequestOk, ShowsHost, InScope, AnswersChallenge

\* So is one that shows one cookie, of its own kind and host.
LEMMA CookieRequestOk ==
  ASSUME NEW request, NEW m, NEW seed, NEW server, NEW kind, NEW host \in Texts,
         request.texts \subseteq {request.passwd, Blank, Empty, Issued(server, kind, host)},
         request.passwd \in Secrets \/ request.passwd = <<"otp", request.server, request.route>>,
         request.input \in {Blank, <<"input", request.server, request.route>>},
         IF kind = "config" THEN request.role = "gateway"
         ELSE server = request.server /\ kind \in {request.role, "token"},
         IF request.route = "cached" /\ kind = "config"
         THEN \E os \in ClientOs : host = ShownId(m, os, seed)
         ELSE host = request.host
  PROVE  RequestOk(request, m, seed)
<1> DEFINE otp == <<"otp", request.server, request.route>>
           input == <<"input", request.server, request.route>>
           cookie == Issued(server, kind, host)
<1>1. /\ ~IsIssued(otp) /\ otp # Blank
      /\ Head(input) = "input" /\ Tail(input) = <<request.server, request.route>>
      /\ Head(otp) = "otp" /\ Tail(otp) = <<request.server, request.route>>
  BY DEF IsIssued, Blank
<1>2. IsIssued(cookie) /\ Issuer(cookie) = <<server, kind>> /\ IssuedTo(cookie) = host
  BY IssuedNames
<1> HIDE DEF otp, input, cookie
<1>3. \A text \in request.texts : IsIssued(text) => text = cookie
  BY <1>1, SecretsArePlain DEF otp, cookie, Secrets
<1>4. ShowsHost(request, m, seed)
  BY <1>2, <1>3 DEF ShowsHost
<1>5. InScope(request)
  BY <1>2, <1>3 DEF InScope
<1>6. AnswersChallenge(request)
  BY <1>1, SecretsArePlain DEF AnswersChallenge, otp, input
<1> QED BY <1>4, <1>5, <1>6 DEF RequestOk

LEMMA HostIsSolid ==
  ASSUME ProfileInv
  PROVE  profile.os \in ClientOs /\ profile.hostId \in SolidTexts /\ profile.hostId \in Texts
BY ShownIsSolid, LoginAssumption DEF ProfileInv, SolidTexts, PlainTexts

\* Prelogins and launches of gpauth show nothing.
LEMMA EmptyRequestOk ==
  ASSUME NEW endpoint, NEW role, NEW server, NEW browser, NEW m, NEW seed
  PROVE  LET request == Request(endpoint, role, server, NoParams, Blank)
         IN  /\ RequestOk(request, m, seed)
             /\ RequestOk([request EXCEPT !.browser = browser], m, seed)
<1> DEFINE request == Request(endpoint, role, server, NoParams, Blank)
           launch  == [request EXCEPT !.browser = browser]
<1>1. request.texts = {Blank} /\ request.passwd = Blank /\ request.input = Blank
  BY NothingShown
<1>2. launch.texts = request.texts /\ launch.passwd = request.passwd
      /\ launch.input = request.input
  BY DEF Request, NoRequest
<1>3. ~IsIssued(Blank)
  BY DEF IsIssued
<1> HIDE DEF request, launch
<1> QED BY <1>1, <1>2, <1>3, PlainRequestOk DEF request, launch

\* A login and its extension show what the route says, and what was entered
\* for this login.
LEMMA LoginRequestOk ==
  ASSUME ProfileInv, CredentialOfRoute, ChallengeInv, NEW endpoint
  PROVE  RequestOk(Request(endpoint, "gateway", login.server,
                           LoginParams(login.cred, profile.os, gpParams.otp), gpParams.input),
                   machine, profile.seed)
<1> DEFINE params  == LoginParams(login.cred, profile.os, gpParams.otp)
           request == Request(endpoint, "gateway", login.server, params, gpParams.input)
<1>1. /\ request.role = "gateway" /\ request.server = login.server
      /\ request.route = login.route /\ request.host = profile.hostId
      /\ request.texts = {params[p] : p \in DOMAIN params}
      /\ request.passwd = params.passwd /\ request.input = gpParams.input
  BY RequestHas
<1>2. /\ gpParams.otp \in {Blank, <<"otp", request.server, request.route>>}
      /\ request.input \in {Blank, <<"input", request.server, request.route>>}
  BY <1>1 DEF ChallengeInv, OtpFor, InputFor
<1>3. profile.hostId \in Texts
  BY HostIsSolid
<1>4. CASE login.route = "cached"
  <2>1. PICK os \in ClientOs : login.cred \in AuthCookies(ShownId(machine, os, profile.seed))
    BY <1>4 DEF CredentialOfRoute
  <2>2. ShownId(machine, os, profile.seed) \in Texts
    BY ShownIsSolid DEF ProfileInv, SolidTexts, PlainTexts
  <2>3. /\ params.passwd \in Secrets \/ (gpParams.otp # Blank /\ params.passwd = gpParams.otp)
        /\ {params[p] : p \in DOMAIN params} \subseteq
             {params.passwd, Blank, Empty,
              Issued(Portal, "config", ShownId(machine, os, profile.seed))}
    BY <2>1, <2>2, CookiesShow
  <2> HIDE DEF params, request
  <2>4. RequestOk(request, machine, profile.seed)
    BY <1>1, <1>2, <1>4, <2>2, <2>3, CookieRequestOk
  <2> QED BY <2>4 DEF params, request
<1>5. CASE login.route = "portalCookie"
  <2>1. login.cred \in AuthCookies(profile.hostId)
    BY <1>5 DEF CredentialOfRoute
  <2>2. /\ params.passwd \in Secrets \/ (gpParams.otp # Blank /\ params.passwd = gpParams.otp)
        /\ {params[p] : p \in DOMAIN params} \subseteq
             {params.passwd, Blank, Empty, Issued(Portal, "config", profile.hostId)}
    BY <1>3, <2>1, CookiesShow
  <2> HIDE DEF params, request
  <2>3. RequestOk(request, machine, profile.seed)
    BY <1>1, <1>2, <1>3, <1>5, <2>2, CookieRequestOk
  <2> QED BY <2>3 DEF params, request
<1>6. CASE login.route \in {"fallback", "direct"}
  <2>1. login.cred \in SsoCreds(login.server, "gateway", profile.hostId)
    BY <1>6 DEF CredentialOfRoute
  <2>2. /\ params.passwd \in Secrets \/ (gpParams.otp # Blank /\ params.passwd = gpParams.otp)
        /\ {params[p] : p \in DOMAIN params} \subseteq
             {params.passwd, Blank, Empty, Issued(login.server, "gateway", profile.hostId)}
    BY <1>3, <2>1, SsoShows
  <2> HIDE DEF params, request
  <2>3. RequestOk(request, machine, profile.seed)
    BY <1>1, <1>2, <1>3, <1>6, <2>2, CookieRequestOk
  <2> QED BY <2>3 DEF params, request
<1> QED BY <1>4, <1>5, <1>6 DEF CredentialOfRoute

\* The request for a configuration shows what answered the portal's prelogin.
LEMMA ConfigRequestOk ==
  ASSUME ProfileInv, login.route = "portal",
         login.cred \in SsoCreds(Portal, "portal", profile.hostId)
  PROVE  RequestOk(Request("getconfig", "portal", Portal, GetConfigParams, Blank),
                   machine, profile.seed)
<1> DEFINE params  == LoginParams(login.cred, profile.os, Blank)
           request == Request("getconfig", "portal", Portal, params, Blank)
<1>1. /\ request.role = "portal" /\ request.server = Portal
      /\ request.route = "portal" /\ request.host = profile.hostId
      /\ request.texts = {params[p] : p \in DOMAIN params}
      /\ request.passwd = params.passwd /\ request.input = Blank
  BY RequestHas
<1>2. profile.hostId \in Texts
  BY HostIsSolid
<1>3. /\ params.passwd \in Secrets
      /\ {params[p] : p \in DOMAIN params} \subseteq
           {params.passwd, Blank, Empty, Issued(Portal, "portal", profile.hostId)}
  BY <1>2, SsoShows
<1> HIDE DEF params, request
<1>4. RequestOk(request, machine, profile.seed)
  BY <1>1, <1>2, <1>3, CookieRequestOk
<1> QED BY <1>4 DEF params, request, GetConfigParams

\* The answers to the portal's criteria name the host, which is no cookie.
LEMMA CscRequestOk ==
  ASSUME ProfileInv, NEW answers
  PROVE  RequestOk([Request("csc", "portal", Portal,
                            [passwd |-> Blank, hostId |-> profile.hostId], Blank)
                    EXCEPT !.answers = answers], machine, profile.seed)
<1> DEFINE params  == [passwd |-> Blank, hostId |-> profile.hostId]
           asked   == Request("csc", "portal", Portal, params, Blank)
           request == [asked EXCEPT !.answers = answers]
<1>1. {params[p] : p \in DOMAIN params} = {Blank, profile.hostId} /\ params.passwd = Blank
  OBVIOUS
<1>2. request.texts = asked.texts /\ request.passwd = asked.passwd
      /\ request.input = asked.input
  BY DEF Request, NoRequest
<1>3. ~IsIssued(Blank) /\ ~IsIssued(profile.hostId)
  BY HostIsSolid DEF IsIssued, SolidTexts, PlainTexts
<1> HIDE DEF params
<1>4. request.texts = {Blank, profile.hostId} /\ request.passwd = Blank /\ request.input = Blank
  BY <1>1, <1>2, RequestHas
<1> HIDE DEF request, asked
<1>5. RequestOk(request, machine, profile.seed)
  BY <1>3, <1>4, PlainRequestOk
<1> QED BY <1>5 DEF request, asked, params

\* The HIP report goes with the session's token, and for the session's host.
LEMMA HipRequestOk ==
  ASSUME ProfileInv, login.token \in {Blank, Token(login.server)}, NEW asRoot, NEW answers
  PROVE  LET report == HipReport(machine, asRoot, profile.os, profile.seed)
         IN  RequestOk([Request("hip", "gateway", login.server,
                                [passwd |-> Blank, token |-> login.token], Blank)
                        EXCEPT !.host = report.hostId, !.answers = answers],
                       machine, profile.seed)
<1> DEFINE params  == [passwd |-> Blank, token |-> login.token]
           report  == HipReport(machine, asRoot, profile.os, profile.seed)
           asked   == Request("hip", "gateway", login.server, params, Blank)
           request == [asked EXCEPT !.host = report.hostId, !.answers = answers]
<1>1. {params[p] : p \in DOMAIN params} = {Blank, login.token} /\ params.passwd = Blank
  OBVIOUS
<1>2. /\ request.texts = asked.texts /\ request.passwd = asked.passwd
      /\ request.input = asked.input /\ request.role = asked.role
      /\ request.server = asked.server /\ request.host = report.hostId
  BY DEF Request, NoRequest
<1>3. profile.os \in ClientOs /\ profile.hostId \in Texts
  BY HostIsSolid
<1>4. report.hostId = profile.hostId
  BY <1>3, ProfileOfSeed DEF HipReport, ProfileInv, SolidTexts
<1> HIDE DEF params
<1>5. /\ request.texts = {Blank, login.token} /\ request.passwd = Blank
      /\ request.input = Blank /\ request.role = "gateway"
      /\ request.server = login.server
  BY <1>1, <1>2, RequestHas
<1> HIDE DEF request, asked, report
<1>6. request.texts \subseteq {request.passwd, Blank, Empty,
                               Issued(login.server, "token", profile.hostId)}
  BY <1>5 DEF Token
<1>7. RequestOk(request, machine, profile.seed)
  BY <1>2, <1>3, <1>4, <1>5, <1>6, CookieRequestOk DEF Secrets
<1> QED BY <1>7 DEF request, asked, report, params

-----------------------------------------------------------------------------
(* Where credentials come from.                                            *)

\* gpauth in the pipe: its cookie is for the host of the seed it tells.
LEMMA StdinResult ==
  ASSUME ProfileInv, NEW result \in AuthResults(args), result.line = "success"
  PROVE  /\ result.seed \in SolidTexts
         /\ result.creds \subseteq SamlForms(Issued(Portal, Role(args.asGateway),
                                                ShownId(machine, args.os, result.seed)))
<1>1. Blank \in PlainTexts /\ args.os \in ClientOs
  BY LoginAssumption DEF ProfileInv, PlainTexts, Texts, IsIssued, Blank
<1>2. /\ AuthProfile(args.os, Blank).seed \in SolidTexts
      /\ AuthProfile(args.os, Blank).hostId =
           ShownId(machine, args.os, AuthProfile(args.os, Blank).seed)
  BY <1>1, ProfileOfSeed DEF ProfileInv, AuthProfile
<1>3. \E cred \in SamlForms(Issued(Portal, Role(args.asGateway),
                                  AuthProfile(args.os, Blank).hostId)) :
        result.seed = AuthProfile(args.os, Blank).seed /\ result.creds = {cred}
  BY DEF AuthResults
<1> QED BY <1>2, <1>3

\* A line without a success gives no credential.
LEMMA NoSuccess ==
  ASSUME NEW result \in AuthResults(args), result.line # "success"
  PROVE  result.creds = {}
BY DEF AuthResults

\* The profile that the run goes on with after its result on standard input.
LEMMA StdinProfileOk ==
  ASSUME ProfileInv, StdinInv
  PROVE  /\ StdinProfile.os = args.os
         /\ StdinProfile.seed \in SolidTexts
         /\ StdinProfile.hostId = ShownId(machine, StdinProfile.os, StdinProfile.seed)
         /\ stdin = <<>> => StdinProfile = profile
         /\ stdin # <<>> /\ stdin[1].line = "success" => stdin[1].seed = StdinProfile.seed
<1>1. CASE stdin = <<>> \/ stdin[1].line # "success"
  BY <1>1 DEF StdinProfile, ProfileInv
<1>2. CASE stdin # <<>> /\ stdin[1].line = "success"
  <2>1. stdin[1].seed \in SolidTexts
    BY <1>2, StdinResult DEF StdinInv
  <2>2. StdinProfile = OsProfile(machine, root, args.os, stdin[1].seed, args.hostname)
    BY <1>2 DEF StdinProfile, ProfileFor
  <2>3. args.os \in ClientOs
    BY LoginAssumption DEF ProfileInv
  <2> QED BY <1>2, <2>1, <2>2, <2>3, ProfileOfSeed DEF ProfileInv, SolidTexts
<1> QED BY <1>1, <1>2

\* Whatever a prelogin leads to answers it: for its server, its role and the
\* host of the profile.
LEMMA CandidatesAnswer ==
  ASSUME ProfileInv, StdinInv, pc \notin {"idle", "begin"},
         Source = "stdin" =>
           prelogin.server = Portal /\ Role(prelogin.isGateway) = Role(args.asGateway),
         NEW cred \in Candidates
  PROVE  cred \in SsoCreds(prelogin.server, Role(prelogin.isGateway), profile.hostId)
<1>1. profile.os \in ClientOs /\ profile.hostId \in Texts
  BY HostIsSolid
<1>2. CASE Source = "stdin"
  <2>1. stdin # <<>> /\ stdin[1] \in AuthResults(args)
    BY <1>2 DEF StdinInv, Source, ShouldReadStdin
  <2>2. stdin[1].line = "success" /\ cred \in stdin[1].creds
    BY <1>2, <2>1, NoSuccess DEF Candidates, FromStdin
  <2>3. stdin[1].seed = profile.seed
    BY <2>1, <2>2 DEF StdinInv
  <2>4. stdin[1].creds \subseteq SamlForms(Issued(Portal, Role(args.asGateway), profile.hostId))
    BY <2>1, <2>2, <2>3, StdinResult DEF ProfileInv
  <2> QED BY <1>2, <2>2, <2>4 DEF SsoCreds
<1>3. CASE Source = "gpauth"
  <2>1. AuthProfile(profile.os, profile.seed).hostId = profile.hostId
    BY <1>1, ProfileOfSeed DEF AuthProfile, ProfileInv, SolidTexts
  <2>2. SamlCookies = {Issued(prelogin.server, Role(prelogin.isGateway), profile.hostId)}
    BY <2>1 DEF SamlCookies
  <2> QED BY <1>3, <2>2 DEF Candidates, SamlCredentials, SsoCreds
<1>4. CASE Source = "prompt"
  BY <1>4 DEF Candidates, Passwords, SsoCreds
<1> QED BY <1>2, <1>3, <1>4 DEF Source

\* The cookies of a configuration are for the host that asked for it.
LEMMA ConfiguredCookies ==
  ASSUME NEW cookie \in ConfigCookies, NEW cred, NEW server, NEW role, NEW host,
         cred \in SsoCreds(server, role, host)
  PROVE  CarryPassword(cookie, cred) \in AuthCookies(profile.hostId)
<1>1. cookie \in AuthCookies(profile.hostId)
  BY DEF ConfigCookies, AuthCookies, ConfigTexts, AuthCookie
<1>2. cred.type = "password" => cred.passwd = <<"password">>
  BY DEF SsoCreds, SamlForms, Password, Prelogin
<1> QED BY <1>1, <1>2 DEF CarryPassword, WithPassword, AuthCookies

-----------------------------------------------------------------------------
(* Every step keeps the invariant.                                         *)

\* Within a run the process is who it is, and the cache is kept or dropped.
LEMMA Frame ==
  ASSUME ProfileInv, StdinInv, StoreInv,
         UNCHANGED <<machine, args, profile, stdin>>,
         pc \notin {"idle", "begin"},
         store' \in {store, Clear},
         login'.route = "cached" => login.route = "cached",
         sent'.route \in {sent.route, login.route}
  PROVE  ProfileInv' /\ StdinInv' /\ StoreInv'
<1>1. ProfileInv'
  BY DEF ProfileInv, ShownId
<1>2. StdinInv'
  <2>1. AuthResults(args)' = AuthResults(args)
    BY DEF AuthResults, AuthProfile
  <2> QED BY <2>1 DEF StdinInv
<1>3. StoreInv'
  BY DEF StoreInv, Clear
<1> QED BY <1>1, <1>2, <1>3

LEMMA LoginInit == Init => LoginInv
<1> SUFFICES ASSUME Init PROVE LoginInv
  OBVIOUS
<1>1. args.os \in ClientOs /\ Blank \in PlainTexts
  BY LoginAssumption DEF Init, PlainTexts, Texts, IsIssued, Blank
<1>2. ProfileInv
  <2>1. machine \in Machines /\ args \in Arguments
    BY DEF Init
  <2> DEFINE r == FALSE
  <2>3. profile = OsProfile(machine, r, args.os, Blank, args.hostname)
    BY DEF Init, ProfileFor
  <2> HIDE DEF r
  <2>2. /\ profile.os = args.os /\ profile.seed \in SolidTexts
        /\ profile.hostId = ShownId(machine, args.os, profile.seed)
    BY <1>1, <2>1, <2>3, ProfileOfSeed
  <2> QED BY <2>1, <2>2 DEF ProfileInv
<1>3. StdinInv /\ StoreInv
  BY DEF Init, StdinInv, StoreInv, NoLogin, NoRequest, Clear
<1>4. PortalInv /\ PreloginInv /\ ConfigInv /\ SessionInv
  BY DEF Init, PortalInv, PortalPcs, PortalRoutes, PreloginInv, ConfigInv, SessionInv,
         SessionPcs, NoLogin
<1> QED BY <1>2, <1>3, <1>4 DEF LoginInv

LEMMA StartKeeps == LoginInv /\ Start => LoginInv'
<1> SUFFICES ASSUME LoginInv, Start PROVE LoginInv'
  OBVIOUS
<1>1. PICK a \in Arguments, r \in BOOLEAN :
        /\ args' = a
        /\ stdin' \in IF a.cookieOnStdin THEN {<<result>> : result \in AuthResults(a)} ELSE {<<>>}
        /\ profile' = OsProfile(machine, r, a.os, Blank, a.hostname)
  BY DEF Start, ProfileFor
<1>2. pc' = "begin" /\ login' = NoLogin /\ sent' = NoRequest /\ UNCHANGED <<machine, store>>
  BY DEF Start
<1>3. a.os \in ClientOs /\ Blank \in PlainTexts
  BY LoginAssumption DEF PlainTexts, Texts, IsIssued, Blank
<1>4. ProfileInv'
  <2>1. machine \in Machines
    BY DEF LoginInv, ProfileInv
  <2>2. /\ profile'.os = a.os /\ profile'.seed \in SolidTexts
        /\ profile'.hostId = ShownId(machine, a.os, profile'.seed)
    BY <1>1, <1>3, <2>1, ProfileOfSeed
  <2> QED BY <1>1, <1>2, <2>1, <2>2 DEF ProfileInv, ShownId
<1>5. StdinInv'
  <2>1. AuthResults(args)' = AuthResults(a)
    BY <1>1, <1>2 DEF AuthResults, AuthProfile
  <2>2. ~("cached" \in {login.route, sent.route})'
    BY <1>2 DEF NoLogin, NoRequest
  <2>3. stdin' # <<>> => a.cookieOnStdin /\ stdin'[1] \in AuthResults(a)
    BY <1>1
  <2>4. a.cookieOnStdin => stdin' # <<>>
    <3>1. \A result : <<result>> # <<>>
      OBVIOUS
    <3> QED BY <1>1, <3>1
  <2> QED BY <1>1, <1>2, <2>1, <2>2, <2>3, <2>4 DEF StdinInv
<1>6. StoreInv'
  BY <1>2 DEF LoginInv, StoreInv, ShownId
<1>7. PortalInv' /\ PreloginInv' /\ ConfigInv' /\ SessionInv'
  BY <1>2 DEF PortalInv, PortalPcs, PortalRoutes, PreloginInv, ConfigInv, SessionInv,
              SessionPcs, NoLogin
<1> QED BY <1>4, <1>5, <1>6, <1>7 DEF LoginInv

LEMMA HandleImplKeeps == LoginInv /\ HandleImpl => LoginInv'
<1> SUFFICES ASSUME LoginInv, HandleImpl PROVE LoginInv'
  OBVIOUS
<1> DEFINE cached == CachedCookie(StdinProfile.seed)
<1>1. /\ pc = "begin" /\ profile' = StdinProfile
      /\ UNCHANGED <<machine, args, stdin, sent>>
      /\ store' \in {store, Clear}
      /\ \/ pc' = "directPrelogin" /\ args.asGateway /\ UNCHANGED login
         \/ pc' = "portalPrelogin" /\ ~args.asGateway /\ UNCHANGED login
         \/ pc' = "idle" /\ UNCHANGED login
         \/ /\ pc' = "login" /\ ~args.asGateway /\ cached # <<>>
            /\ login' = [route |-> "cached", server |-> cached[1].lastGateway,
                         cred |-> cached[1].authCookie, token |-> Blank]
            /\ gpParams' = NoOtp
  BY DEF HandleImpl, NoLogIn, LogIn
<1>2. /\ ProfileInv /\ StdinInv /\ StoreInv
  BY DEF LoginInv
<1>3. ProfileInv'
  BY <1>1, <1>2, StdinProfileOk DEF ProfileInv, ShownId
<1>4. cached # <<>> => /\ stdin = <<>> /\ cached[1].authCookie = store[1].authCookie
                       /\ store # <<>> /\ store[1].seed = StdinProfile.seed
  BY <1>2 DEF CachedCookie, Load, StdinInv
<1>5. StdinInv'
  <2>1. AuthResults(args)' = AuthResults(args)
    BY <1>1 DEF AuthResults, AuthProfile
  <2>2. stdin # <<>> /\ stdin[1].line = "success" => stdin[1].seed = profile'.seed
    BY <1>1, <1>2, StdinProfileOk
  <2>3. "cached" \in {login'.route, sent.route} => stdin = <<>>
    BY <1>1, <1>2, <1>4 DEF StdinInv
  <2> QED BY <1>1, <1>2, <2>1, <2>2, <2>3 DEF StdinInv
<1>6. StoreInv'
  BY <1>1, <1>2 DEF StoreInv, ShownId, Clear
<1>7. PortalInv'
  BY <1>1 DEF LoginInv, PortalInv, PortalPcs, PortalRoutes
<1>8. PreloginInv' /\ ConfigInv'
  <2>1. /\ pc' \in {"idle", "directPrelogin", "portalPrelogin", "login"}
        /\ pc' = "login" => login'.route = "cached"
    BY <1>1
  <2> QED BY <2>1 DEF PreloginInv, ConfigInv, SessionPcs
<1>9. SessionInv'
  <2>1. CASE pc' \in {"idle", "directPrelogin", "portalPrelogin"}
    BY <2>1 DEF SessionInv, SessionPcs
  <2>2. CASE pc' = "login"
    <3>1. cached # <<>> /\ login'.route = "cached" /\ login'.cred = store[1].authCookie
          /\ login'.token = Blank /\ gpParams' = NoOtp
      BY <1>1, <1>4, <2>2
    <3>2. PICK os \in ClientOs :
            store[1].authCookie \in AuthCookies(ShownId(machine, os, store[1].seed))
      BY <1>2, <1>4, <3>1 DEF StoreInv
    <3>3. login'.cred \in AuthCookies(ShownId(machine, os, profile.seed))'
      BY <1>1, <1>4, <3>1, <3>2 DEF ShownId
    <3>4. CredentialOfRoute'
      BY <3>1, <3>3 DEF CredentialOfRoute
    <3>5. ChallengeInv'
      BY <3>1 DEF ChallengeInv, NoOtp
    <3> QED BY <2>2, <3>1, <3>4, <3>5 DEF SessionInv, SessionPcs
  <2> QED BY <1>1, <2>1, <2>2
<1> QED BY <1>3, <1>5, <1>6, <1>7, <1>8, <1>9 DEF LoginInv

\* What the requests leave of the route, and the prelogin of its request.
LEMMA RouteOfRequest ==
  /\ \A server, isGateway : SendPrelogin(server, isGateway) => sent'.route = login.route
  /\ \A endpoint : SendLogin(endpoint) => sent'.route = login.route
  /\ \A allowed : Launch(allowed) => sent'.route \in {sent.route, login.route}
<1>1. ASSUME NEW server, NEW isGateway, SendPrelogin(server, isGateway)
      PROVE  sent'.route = login.route
  BY <1>1, RequestHas DEF SendPrelogin
<1>2. ASSUME NEW endpoint, SendLogin(endpoint) PROVE sent'.route = login.route
  BY <1>2, RequestHas DEF SendLogin
<1>3. ASSUME NEW allowed, Launch(allowed) PROVE sent'.route \in {sent.route, login.route}
  BY <1>3 DEF Launch, Request, NoRequest
<1> QED BY <1>1, <1>2, <1>3

LEMMA PreloginAnswered ==
  ASSUME NEW server, NEW isGateway, NEW allowed, UNCHANGED <<args, profile>>,
         PreloginAnswers(server, isGateway, allowed)
  PROVE  /\ prelogin'.server = server /\ prelogin'.isGateway = isGateway
         /\ prelogin'.announced = Announced(isGateway, allowed)
         /\ Announced(isGateway, allowed)' = Announced(isGateway, allowed)
<1>1. /\ prelogin'.server = server /\ prelogin'.isGateway = isGateway
      /\ prelogin'.announced = Announced(isGateway, allowed)
  BY DEF PreloginAnswers, Prelogins, ParsePrelogin
<1>2. Announced(isGateway, allowed)' = Announced(isGateway, allowed)
  BY DEF Announced, PreloginOptions, ExternalRequested
<1> QED BY <1>1, <1>2

LEMMA LockedKeeps == LoginInv /\ Locked => LoginInv'
<1> SUFFICES ASSUME LoginInv, Locked PROVE LoginInv'
  OBVIOUS
<1>1. /\ pc \in {"portalPrelogin", "directPrelogin"} /\ pc' \in {"begin", "idle"}
      /\ UNCHANGED <<machine, args, profile, stdin, store, login, sent>>
  BY DEF Locked
<1>2. ProfileInv' /\ StdinInv' /\ StoreInv'
  BY <1>1, Frame DEF LoginInv
<1>3. PortalInv' /\ PreloginInv' /\ ConfigInv' /\ SessionInv'
  BY <1>1 DEF LoginInv, PortalInv, PortalPcs, PortalRoutes, PreloginInv, ConfigInv,
              SessionInv, SessionPcs
<1> QED BY <1>2, <1>3 DEF LoginInv

LEMMA PortalPreloginKeeps == LoginInv /\ PortalPrelogin => LoginInv'
<1> SUFFICES ASSUME LoginInv, PortalPrelogin PROVE LoginInv'
  OBVIOUS
<1>1. /\ pc = "portalPrelogin" /\ UNCHANGED <<machine, args, profile, stdin, store, login, config>>
      /\ \/ PreloginAnswers(Portal, FALSE, FALSE) /\ pc' = "portalCredential"
         \/ pc' \in FailsOver
  BY DEF PortalPrelogin, NoLogIn, process
<1>2. ProfileInv' /\ StdinInv' /\ StoreInv'
  BY <1>1, Frame, RouteOfRequest DEF LoginInv, PortalPrelogin
<1>3. PreloginInv'
  BY <1>1, PreloginAnswered DEF PreloginInv, PreloginOf, FailsOver
<1>4. PortalInv' /\ ConfigInv' /\ SessionInv'
  BY <1>1 DEF LoginInv, PortalInv, PortalPcs, PortalRoutes, ConfigInv, SessionInv,
              SessionPcs, FailsOver
<1> QED BY <1>2, <1>3, <1>4 DEF LoginInv

LEMMA DirectPreloginKeeps == LoginInv /\ DirectPrelogin => LoginInv'
<1> SUFFICES ASSUME LoginInv, DirectPrelogin PROVE LoginInv'
  OBVIOUS
<1>1. /\ pc = "directPrelogin" /\ UNCHANGED <<machine, args, profile, stdin, store, login>>
      /\ \/ PreloginAnswers(Portal, TRUE, TRUE) /\ pc' = "directCredential"
         \/ pc' = "idle"
  BY DEF DirectPrelogin, NoLogIn, process
<1>2. ProfileInv' /\ StdinInv' /\ StoreInv'
  BY <1>1, Frame, RouteOfRequest DEF LoginInv, DirectPrelogin
<1>3. PreloginInv'
  BY <1>1, PreloginAnswered DEF PreloginInv, PreloginOf
<1>4. PortalInv' /\ ConfigInv' /\ SessionInv'
  BY <1>1 DEF LoginInv, PortalInv, PortalPcs, PortalRoutes, ConfigInv, SessionInv, SessionPcs
<1> QED BY <1>2, <1>3, <1>4 DEF LoginInv

LEMMA PortalCredentialKeeps == LoginInv /\ PortalCredential => LoginInv'
<1> SUFFICES ASSUME LoginInv, PortalCredential PROVE LoginInv'
  OBVIOUS
<1>1. /\ pc = "portalCredential" /\ Launch(FALSE)
      /\ UNCHANGED <<machine, args, profile, stdin, store, config>>
      /\ \/ /\ pc' = "getConfig"
            /\ \E cred \in Candidates :
                 login' = [NoLogin EXCEPT !.route = "portal", !.server = Portal, !.cred = cred]
         \/ pc' = "idle" /\ UNCHANGED login
  BY DEF PortalCredential
<1>2. login'.route \in {"portal", login.route}
  BY <1>1 DEF NoLogin
<1>3. ProfileInv' /\ StdinInv' /\ StoreInv'
  BY <1>1, <1>2, Frame, RouteOfRequest DEF LoginInv
<1>4. PortalInv' /\ PreloginInv' /\ ConfigInv'
  BY <1>1, <1>2 DEF LoginInv, PortalInv, PortalPcs, PortalRoutes, PreloginInv, ConfigInv,
                    SessionPcs
<1>5. SessionInv'
  <2>1. CASE pc' = "idle"
    BY <2>1 DEF SessionInv, SessionPcs
  <2>2. CASE pc' = "getConfig"
    <3>1. PICK cred \in Candidates : login'.route = "portal" /\ login'.cred = cred
      BY <1>1, <2>2 DEF NoLogin
    <3>2. prelogin.server = Portal /\ prelogin.isGateway = FALSE /\ ~args.asGateway
      BY <1>1 DEF LoginInv, PreloginInv, PreloginOf, PortalInv, PortalPcs
    <3>3. Role(prelogin.isGateway) = "portal" /\ Role(args.asGateway) = "portal"
      BY <3>2 DEF Role
    <3>4. cred \in SsoCreds(Portal, "portal", profile.hostId)
      BY <1>1, <3>2, <3>3, CandidatesAnswer DEF LoginInv
    <3> QED BY <1>1, <2>2, <3>1, <3>4 DEF SessionInv, SessionPcs
  <2> QED BY <1>1, <2>1, <2>2
<1> QED BY <1>3, <1>4, <1>5 DEF LoginInv

\* A login that has just begun, with a credential of its route.
LEMMA LogInOk ==
  ASSUME NEW route, NEW server, NEW cred, LogIn(route, server, cred)
  PROVE  /\ login'.route = route /\ login'.server = server /\ login'.cred = cred
         /\ pc' = "login" /\ login'.token = Blank /\ ChallengeInv'
BY DEF LogIn, ChallengeInv, NoOtp

LEMMA DirectCredentialKeeps == LoginInv /\ DirectCredential => LoginInv'
<1> SUFFICES ASSUME LoginInv, DirectCredential PROVE LoginInv'
  OBVIOUS
<1>1. /\ pc = "directCredential" /\ Launch(TRUE)
      /\ UNCHANGED <<machine, args, profile, stdin, store>>
      /\ \/ \E cred \in Candidates : LogIn("direct", Portal, cred)
         \/ pc' = "idle" /\ UNCHANGED login
  BY DEF DirectCredential, NoLogIn
<1>2. login'.route \in {"direct", login.route} /\ pc' \in {"idle", "login"}
      /\ (pc' = "login" => login'.route = "direct")
  BY <1>1, LogInOk
<1>3. ProfileInv' /\ StdinInv' /\ StoreInv'
  BY <1>1, <1>2, Frame, RouteOfRequest DEF LoginInv
<1>4. PortalInv' /\ PreloginInv' /\ ConfigInv'
  BY <1>1, <1>2 DEF LoginInv, PortalInv, PortalPcs, PortalRoutes, PreloginInv, ConfigInv,
                    SessionPcs
<1>5. SessionInv'
  <2>1. CASE pc' = "idle"
    BY <2>1 DEF SessionInv, SessionPcs
  <2>2. CASE pc' = "login"
    <3>1. PICK cred \in Candidates : LogIn("direct", Portal, cred)
      BY <1>1, <2>2
    <3>2. prelogin.server = Portal /\ prelogin.isGateway = TRUE
      BY <1>1 DEF LoginInv, PreloginInv, PreloginOf
    <3>3. Source = "stdin" => args.asGateway
      BY <3>2 DEF Source, ShouldReadStdin
    <3>4. Role(prelogin.isGateway) = "gateway" /\ (args.asGateway => Role(args.asGateway) = "gateway")
      BY <3>2 DEF Role
    <3>5. cred \in SsoCreds(Portal, "gateway", profile.hostId)
      BY <1>1, <3>2, <3>3, <3>4, CandidatesAnswer DEF LoginInv
    <3>6. CredentialOfRoute'
      BY <1>1, <3>1, <3>5, LogInOk DEF CredentialOfRoute
    <3> QED BY <2>2, <3>1, <3>6, LogInOk DEF SessionInv, SessionPcs
  <2> QED BY <1>2, <2>1, <2>2
<1> QED BY <1>3, <1>4, <1>5 DEF LoginInv

\* A configuration, or none, after a request of the portal's.
LEMMA AfterConfigRequest ==
  ASSUME LoginInv, pc \in {"getConfig", "csc"},
         UNCHANGED <<machine, args, profile, stdin, store, login>>,
         sent'.route \in {sent.route, login.route},
         Configured \/ pc' = "csc" \/ pc' \in FailsOver
  PROVE  LoginInv'
<1>1. ProfileInv' /\ StdinInv' /\ StoreInv'
  BY Frame DEF LoginInv
<1>2. pc' \in {"idle", "gatewayPrelogin", "csc"} \cup FailsOver
  BY DEF Configured
<1>3. PortalInv' /\ PreloginInv'
  BY <1>2 DEF LoginInv, PortalInv, PortalPcs, PortalRoutes, PreloginInv, FailsOver
<1>4. ConfigInv'
  <2>1. CASE Configured
    <3>1. PICK cookie \in ConfigCookies : config'[1].authCookie = CarryPassword(cookie, login.cred)
      BY <2>1 DEF Configured
    <3>2. login.cred \in SsoCreds(Portal, "portal", profile.hostId)
      BY DEF LoginInv, SessionInv
    <3>3. config'[1].authCookie \in AuthCookies(profile.hostId)
      BY <3>1, <3>2, ConfiguredCookies
    <3> QED BY <3>3 DEF ConfigInv
  <2>2. CASE pc' \in {"csc"} \cup FailsOver
    BY <2>2 DEF ConfigInv, SessionPcs, FailsOver
  <2> QED BY <2>1, <2>2
<1>5. SessionInv'
  BY <1>2 DEF LoginInv, SessionInv, SessionPcs, FailsOver
<1> QED BY <1>1, <1>3, <1>4, <1>5 DEF LoginInv

LEMMA RetrieveConfigKeeps == LoginInv /\ RetrieveConfig => LoginInv'
<1> SUFFICES ASSUME LoginInv, RetrieveConfig PROVE LoginInv'
  OBVIOUS
<1>1. /\ pc = "getConfig" /\ UNCHANGED <<machine, args, profile, stdin, store, login>>
      /\ Configured \/ pc' = "csc" \/ pc' \in FailsOver
  BY DEF RetrieveConfig, NotConfigured, process
<1>2. sent'.route = login.route
  BY RequestHas DEF RetrieveConfig
<1> QED BY <1>1, <1>2, AfterConfigRequest

LEMMA RetrieveCscConfigKeeps == LoginInv /\ RetrieveCscConfig => LoginInv'
<1> SUFFICES ASSUME LoginInv, RetrieveCscConfig PROVE LoginInv'
  OBVIOUS
<1>1. /\ pc = "csc" /\ UNCHANGED <<machine, args, profile, stdin, store, login>>
      /\ Configured \/ pc' = "csc" \/ pc' \in FailsOver
  BY DEF RetrieveCscConfig, NotConfigured, process, FailsOver
<1>2. sent'.route \in {sent.route, login.route}
  BY DEF RetrieveCscConfig, Request, NoRequest
<1> QED BY <1>1, <1>2, AfterConfigRequest

\* Where a failure before the tunnel leads.
LEMMA BeforeTunnelLeads ==
  ASSUME NEW failure, BeforeTunnel(failure)
  PROVE  pc' \in {"gatewayPrelogin", "idle", failure}
BY DEF BeforeTunnel

LEMMA GatewayPreloginKeeps == LoginInv /\ GatewayPrelogin => LoginInv'
<1> SUFFICES ASSUME LoginInv, GatewayPrelogin PROVE LoginInv'
  OBVIOUS
<1> DEFINE allowed == GatewayBrowserAllowed(config[1].defaultBrowser)
<1>1. /\ pc = "gatewayPrelogin"
      /\ UNCHANGED <<machine, args, profile, stdin, store, config>>
  BY DEF GatewayPrelogin, process
<1>2. \/ /\ PreloginAnswers(Gateway.address, TRUE, allowed) /\ UNCHANGED next
         /\ LogIn("portalCookie", Gateway.address, config[1].authCookie)
      \/ /\ PreloginAnswers(Gateway.address, TRUE, allowed) /\ UNCHANGED next
         /\ pc' = "gatewayCredential" /\ UNCHANGED login
      \/ pc' \in {"gatewayPrelogin", "idle"} \cup FailsOver /\ UNCHANGED login
  BY BeforeTunnelLeads DEF GatewayPrelogin, NoLogIn
<1>3. login'.route \in {"portalCookie", login.route} /\ ~args.asGateway
  BY <1>1, <1>2, LogInOk DEF LoginInv, PortalInv, PortalPcs
<1>4. ProfileInv' /\ StdinInv' /\ StoreInv'
  BY <1>1, <1>3, Frame, RouteOfRequest DEF LoginInv, GatewayPrelogin
<1>5. PortalInv' /\ ConfigInv'
  BY <1>1, <1>3 DEF LoginInv, PortalInv, ConfigInv
<1>6. PreloginInv' /\ SessionInv'
  <2>1. CASE /\ PreloginAnswers(Gateway.address, TRUE, allowed) /\ UNCHANGED next
             /\ LogIn("portalCookie", Gateway.address, config[1].authCookie)
    <3>1. Gateway' = Gateway /\ GatewayBrowserAllowed(config[1].defaultBrowser)' = allowed
      BY <1>1, <2>1 DEF Gateway, GatewayBrowserAllowed, ExternalRequested
    <3>2. PreloginOf(Gateway.address, TRUE, GatewayBrowserAllowed(config[1].defaultBrowser))'
      <4>1. /\ prelogin'.server = Gateway.address /\ prelogin'.isGateway = TRUE
            /\ prelogin'.announced = Announced(TRUE, allowed)
        BY <1>1, <2>1, PreloginAnswered
      <4>2. Announced(TRUE, GatewayBrowserAllowed(config[1].defaultBrowser))' =
              Announced(TRUE, allowed)
        BY <1>1, <3>1 DEF Announced, PreloginOptions, ExternalRequested
      <4> QED BY <3>1, <4>1, <4>2 DEF PreloginOf
    <3>3. PreloginInv'
      BY <2>1, <3>2, LogInOk DEF PreloginInv
    <3>4. CredentialOfRoute'
      BY <1>1, <2>1, LogInOk DEF LoginInv, ConfigInv, CredentialOfRoute
    <3> QED BY <2>1, <3>3, <3>4, LogInOk DEF SessionInv, SessionPcs
  <2>2. CASE /\ PreloginAnswers(Gateway.address, TRUE, allowed) /\ UNCHANGED next
             /\ pc' = "gatewayCredential"
    <3>1. Gateway' = Gateway /\ GatewayBrowserAllowed(config[1].defaultBrowser)' = allowed
      BY <1>1, <2>2 DEF Gateway, GatewayBrowserAllowed, ExternalRequested
    <3>2. PreloginOf(Gateway.address, TRUE, GatewayBrowserAllowed(config[1].defaultBrowser))'
      <4>1. /\ prelogin'.server = Gateway.address /\ prelogin'.isGateway = TRUE
            /\ prelogin'.announced = Announced(TRUE, allowed)
        BY <1>1, <2>2, PreloginAnswered
      <4>2. Announced(TRUE, GatewayBrowserAllowed(config[1].defaultBrowser))' =
              Announced(TRUE, allowed)
        BY <1>1, <3>1 DEF Announced, PreloginOptions, ExternalRequested
      <4> QED BY <3>1, <4>1, <4>2 DEF PreloginOf
    <3> QED BY <2>2, <3>2 DEF PreloginInv, SessionInv, SessionPcs
  <2>3. CASE pc' \in {"gatewayPrelogin", "idle"} \cup FailsOver
    BY <2>3 DEF PreloginInv, SessionInv, SessionPcs, FailsOver
  <2> QED BY <1>2, <2>1, <2>2, <2>3
<1> QED BY <1>4, <1>5, <1>6 DEF LoginInv

LEMMA GatewayCredentialKeeps == LoginInv /\ GatewayCredential => LoginInv'
<1> SUFFICES ASSUME LoginInv, GatewayCredential PROVE LoginInv'
  OBVIOUS
<1>1. /\ pc = "gatewayCredential"
      /\ Launch(GatewayBrowserAllowed(config[1].defaultBrowser))
      /\ UNCHANGED <<machine, args, profile, stdin, store, config>>
      /\ \/ \E cred \in Candidates : LogIn("fallback", Gateway.address, cred)
         \/ pc' \in {"gatewayPrelogin", "idle"} /\ UNCHANGED login
  BY BeforeTunnelLeads DEF GatewayCredential, NoLogIn
<1>2. /\ login'.route \in {"fallback", login.route} /\ ~args.asGateway
      /\ pc' \in {"gatewayPrelogin", "idle", "login"}
      /\ pc' = "login" => login'.route = "fallback"
  BY <1>1, LogInOk DEF LoginInv, PortalInv, PortalPcs
<1>3. ProfileInv' /\ StdinInv' /\ StoreInv'
  BY <1>1, <1>2, Frame, RouteOfRequest DEF LoginInv
<1>4. PortalInv' /\ PreloginInv' /\ ConfigInv'
  BY <1>1, <1>2 DEF LoginInv, PortalInv, PreloginInv, ConfigInv
<1>5. SessionInv'
  <2>1. CASE pc' \in {"gatewayPrelogin", "idle"}
    BY <2>1 DEF SessionInv, SessionPcs
  <2>2. CASE pc' = "login"
    <3>1. PICK cred \in Candidates : LogIn("fallback", Gateway.address, cred)
      BY <1>1, <2>2
    <3>2. prelogin.server = Gateway.address /\ prelogin.isGateway = TRUE
      BY <1>1 DEF LoginInv, PreloginInv, PreloginOf
    <3>3. Source # "stdin" /\ Role(prelogin.isGateway) = "gateway"
      BY <1>2, <3>2 DEF Source, ShouldReadStdin, Role
    <3>4. cred \in SsoCreds(Gateway.address, "gateway", profile.hostId)
      BY <1>1, <3>2, <3>3, CandidatesAnswer DEF LoginInv
    <3>5. CredentialOfRoute'
      BY <1>1, <3>1, <3>4, LogInOk DEF CredentialOfRoute
    <3> QED BY <2>2, <3>1, <3>5, LogInOk DEF SessionInv, SessionPcs
  <2> QED BY <1>2, <2>1, <2>2
<1> QED BY <1>3, <1>4, <1>5 DEF LoginInv

LEMMA LoginGatewayKeeps == LoginInv /\ LoginGateway => LoginInv'
<1> SUFFICES ASSUME LoginInv, LoginGateway PROVE LoginInv'
  OBVIOUS
<1>1. /\ pc = "login" /\ sent'.route = login.route
      /\ UNCHANGED <<machine, args, profile, stdin, prelogin, config>>
  BY RouteOfRequest DEF LoginGateway, process
<1>2. \/ /\ login' = [login EXCEPT !.token = Token(login.server)]
         /\ pc' = "loggedIn" /\ UNCHANGED <<store, gpParams>>
      \/ Challenge /\ UNCHANGED <<pc, store, next, login>>
      \/ LoginFails /\ UNCHANGED <<login, gpParams>>
  BY DEF LoginGateway, NoLogIn
<1>3. SessionInv /\ CredentialOfRoute /\ ChallengeInv
  BY <1>1 DEF LoginInv, SessionInv, SessionPcs
<1>4. CASE /\ login' = [login EXCEPT !.token = Token(login.server)]
           /\ pc' = "loggedIn" /\ UNCHANGED <<store, gpParams>>
  <2>1. login'.route = login.route /\ login'.server = login.server /\ login'.cred = login.cred
        /\ login'.token = Token(login.server)
    BY <1>3, <1>4 DEF CredentialOfRoute
  <2>2. ProfileInv' /\ StdinInv' /\ StoreInv'
    BY <1>1, <1>4, <2>1, Frame DEF LoginInv
  <2>3. PortalInv' /\ PreloginInv' /\ ConfigInv'
    BY <1>1, <1>4, <2>1 DEF LoginInv, PortalInv, PortalPcs, PreloginInv, ConfigInv, SessionPcs
  <2>4. CredentialOfRoute'
    BY <1>1, <1>3, <2>1 DEF CredentialOfRoute, ShownId
  <2>5. ChallengeInv' /\ Token(login.server)' = Token(login.server)
    BY <1>1, <1>3, <1>4, <2>1 DEF ChallengeInv, OtpFor, InputFor, Token
  <2>6. SessionInv'
    BY <1>4, <2>1, <2>4, <2>5 DEF SessionInv, SessionPcs
  <2> QED BY <2>2, <2>3, <2>6 DEF LoginInv
<1>5. CASE Challenge /\ UNCHANGED <<pc, store, next, login>>
  <2>1. ProfileInv' /\ StdinInv' /\ StoreInv'
    BY <1>1, <1>5, Frame DEF LoginInv
  <2>2. PortalInv' /\ ConfigInv'
    BY <1>1, <1>5 DEF LoginInv, PortalInv, ConfigInv
  <2>3. PreloginInv'
    BY <1>1, <1>5 DEF LoginInv, PreloginInv, PreloginOf, Gateway, GatewayBrowserAllowed,
                      ExternalRequested, Announced, PreloginOptions
  <2>4. CredentialOfRoute' /\ ChallengeInv'
    BY <1>1, <1>3, <1>5 DEF CredentialOfRoute, ShownId, Challenge, ChallengeInv, OtpFor, InputFor
  <2>5. SessionInv'
    BY <1>1, <1>3, <1>5, <2>4 DEF SessionInv, SessionPcs, Token
  <2> QED BY <2>1, <2>2, <2>3, <2>5 DEF LoginInv
<1>6. CASE LoginFails /\ UNCHANGED <<login, gpParams>>
  <2>1. /\ store' \in {store, Clear}
        /\ \/ pc' = "idle"
           \/ pc' = "portalPrelogin" /\ login.route = "cached"
           \/ pc' = "gatewayCredential" /\ login.route = "portalCookie" /\ UNCHANGED next
           \/ pc' = "gatewayPrelogin" /\ login.route = "fallback"
    BY <1>6, BeforeTunnelLeads DEF LoginFails
  <2>2. ProfileInv' /\ StdinInv' /\ StoreInv'
    BY <1>1, <1>6, <2>1, Frame DEF LoginInv
  <2>3. PortalInv' /\ ConfigInv' /\ SessionInv'
    BY <1>1, <1>6, <2>1 DEF LoginInv, PortalInv, PortalPcs, PortalRoutes, ConfigInv, SessionInv,
                            SessionPcs
  <2>4. PreloginInv'
    BY <1>1, <1>6, <2>1 DEF LoginInv, PreloginInv, PreloginOf, Gateway, GatewayBrowserAllowed,
                            ExternalRequested, Announced, PreloginOptions
  <2> QED BY <2>2, <2>3, <2>4 DEF LoginInv
<1> QED BY <1>2, <1>4, <1>5, <1>6

LEMMA LoggedInKeeps == LoginInv /\ LoggedIn => LoginInv'
<1> SUFFICES ASSUME LoginInv, LoggedIn PROVE LoginInv'
  OBVIOUS
<1>1. /\ pc = "loggedIn"
      /\ UNCHANGED <<machine, args, profile, stdin, config, login, gpParams, sent>>
  BY DEF LoggedIn, process
<1>2. CredentialOfRoute /\ SessionInv
  BY <1>1 DEF LoginInv, SessionInv, SessionPcs
<1>3. \/ pc' \in {"idle", "connecting"}
      \/ pc' = "portalPrelogin" /\ login.route = "cached"
      \/ pc' = "gatewayPrelogin" /\ login.route \in {"portalCookie", "fallback"}
  BY <1>2, BeforeTunnelLeads DEF LoggedIn, NotBuilt, ConnectError, CredentialOfRoute
<1>4. ProfileInv' /\ StdinInv'
  BY <1>1 DEF LoginInv, ProfileInv, StdinInv, ShownId, AuthResults, AuthProfile
<1>5. StoreInv'
  <2>1. CASE SavesCookie
    <3>1. config[1].authCookie \in AuthCookies(profile.hostId)
      BY <1>1, <2>1 DEF LoginInv, ConfigInv, SessionPcs, SavesCookie
    <3>2. store' = Save(StoredCookie(Portal, profile.seed, login.server, config[1].authCookie))
      BY <2>1 DEF LoggedIn
    <3>3. /\ store'[1].seed = profile.seed
          /\ store'[1].authCookie = [config[1].authCookie EXCEPT !.passwd = Blank]
      BY <3>2 DEF Save, StoredCookie
    <3>4. store'[1].authCookie \in AuthCookies(profile.hostId)
      BY <3>1, <3>3 DEF AuthCookies
    <3>5. profile.hostId = ShownId(machine, profile.os, store'[1].seed) /\ profile.os \in ClientOs
      BY <3>3, HostIsSolid DEF LoginInv, ProfileInv
    <3> QED BY <1>1, <3>4, <3>5 DEF StoreInv, ShownId
  <2>2. CASE ~SavesCookie
    BY <1>1, <2>2 DEF LoginInv, StoreInv, LoggedIn, ShownId
  <2> QED BY <2>1, <2>2
<1>6. PortalInv' /\ PreloginInv' /\ ConfigInv'
  BY <1>1, <1>3 DEF LoginInv, PortalInv, PortalPcs, PortalRoutes, PreloginInv, ConfigInv,
                    SessionPcs
<1>7. SessionInv'
  BY <1>1, <1>2, <1>3 DEF SessionInv, SessionPcs, CredentialOfRoute, ChallengeInv, ShownId,
                          OtpFor, InputFor, Token
<1> QED BY <1>4, <1>5, <1>6, <1>7 DEF LoginInv

\* Steps of a session that only go on, or end it.
LEMMA SessionGoesOn ==
  ASSUME LoginInv, pc \in {"connecting", "tunnel"},
         UNCHANGED <<machine, args, profile, stdin, store, config, login, gpParams>>,
         sent'.route \in {sent.route, login.route},
         \/ pc' \in {"idle", "connecting", "tunnel"}
         \/ pc' = "portalPrelogin" /\ login.route = "cached"
         \/ pc' = "gatewayPrelogin" /\ login.route \in {"portalCookie", "fallback"}
  PROVE  LoginInv'
<1>1. ProfileInv' /\ StdinInv' /\ StoreInv'
  BY Frame DEF LoginInv
<1>2. PortalInv' /\ PreloginInv' /\ ConfigInv'
  BY DEF LoginInv, PortalInv, PortalPcs, PortalRoutes, PreloginInv, ConfigInv, SessionPcs
<1>3. SessionInv'
  BY DEF LoginInv, SessionInv, SessionPcs, CredentialOfRoute, ChallengeInv, ShownId, OtpFor,
         InputFor, Token
<1> QED BY <1>1, <1>2, <1>3 DEF LoginInv

LEMMA SessionKeeps ==
  LoginInv /\ (ConnectFails \/ Established \/ Hip \/ Extend \/ TunnelEnds) => LoginInv'
<1> SUFFICES ASSUME LoginInv, ConnectFails \/ Established \/ Hip \/ Extend \/ TunnelEnds
             PROVE  LoginInv'
  OBVIOUS
<1>1. pc \in {"connecting", "tunnel"} => CredentialOfRoute
  BY DEF LoginInv, SessionInv, SessionPcs
<1>2. CASE ConnectFails
  BY <1>1, <1>2, BeforeTunnelLeads, SessionGoesOn
     DEF ConnectFails, ConnectError, NoLogIn, process, CredentialOfRoute
<1>3. CASE Established
  BY <1>3, SessionGoesOn DEF Established, process
<1>4. CASE Hip
  <2>1. sent'.route = login.route
    BY <1>4 DEF Hip, Request, NoRequest
  <2> QED BY <1>4, <2>1, SessionGoesOn DEF Hip, process
<1>5. CASE Extend
  BY <1>5, RouteOfRequest, SessionGoesOn DEF Extend, process
<1>6. CASE TunnelEnds
  BY <1>6, SessionGoesOn DEF TunnelEnds, process
<1> QED BY <1>2, <1>3, <1>4, <1>5, <1>6

\* Who logs in, with what and where.
LEMMA LoginInductive == Spec => []LoginInv
<1>1. LoginInv /\ [Next]_vars => LoginInv'
  <2> SUFFICES ASSUME LoginInv, [Next]_vars PROVE LoginInv'
    OBVIOUS
  <2>1. CASE Next
    BY <2>1, StartKeeps, HandleImplKeeps, LockedKeeps, PortalPreloginKeeps,
       PortalCredentialKeeps, RetrieveConfigKeeps, RetrieveCscConfigKeeps,
       GatewayPreloginKeeps, GatewayCredentialKeeps, DirectPreloginKeeps,
       DirectCredentialKeeps, LoginGatewayKeeps, LoggedInKeeps, SessionKeeps DEF Next
  <2>2. CASE UNCHANGED vars
    <3>1. ProfileInv' /\ StdinInv' /\ StoreInv'
      BY <2>2 DEF LoginInv, vars, process, ProfileInv, StdinInv, StoreInv, ShownId, AuthResults,
                  AuthProfile
    <3>2. PortalInv' /\ PreloginInv' /\ ConfigInv'
      BY <2>2 DEF LoginInv, vars, process, PortalInv, PreloginInv, ConfigInv, PreloginOf, Gateway,
                  GatewayBrowserAllowed, ExternalRequested, Announced, PreloginOptions
    <3>3. SessionInv'
      BY <2>2 DEF LoginInv, vars, process, SessionInv, CredentialOfRoute, ChallengeInv, ShownId,
                  OtpFor, InputFor, Token
    <3> QED BY <3>1, <3>2, <3>3 DEF LoginInv
  <2> QED BY <2>1, <2>2
<1> QED BY LoginInit, <1>1, PTL DEF Spec

-----------------------------------------------------------------------------
(* Every request is in order.                                              *)

LEMMA SentByRun ==
  ASSUME ProfileInv,
         \/ \E server, isGateway : SendPrelogin(server, isGateway)
         \/ \E allowed : Launch(allowed)
  PROVE  sent' = sent \/ RequestOk(sent', machine, profile.seed)
<1>1. ASSUME NEW server, NEW isGateway, SendPrelogin(server, isGateway)
      PROVE  RequestOk(sent', machine, profile.seed)
  BY <1>1, EmptyRequestOk DEF SendPrelogin
<1>2. ASSUME NEW allowed, Launch(allowed)
      PROVE  sent' = sent \/ RequestOk(sent', machine, profile.seed)
  <2>1. CASE Source # "gpauth"
    BY <1>2, <2>1 DEF Launch
  <2>2. CASE Source = "gpauth"
    <3>1. sent' = [Request("gpauth", Role(prelogin.isGateway), prelogin.server, NoParams, Blank)
                   EXCEPT !.browser = Browser(allowed)]
      BY <1>2, <2>2 DEF Launch
    <3> QED BY <3>1, EmptyRequestOk
  <2> QED BY <2>1, <2>2
<1> QED BY <1>1, <1>2

\* A step sends nothing, begins a run, or sends a request that is in order.
LEMMA SentStep ==
  ASSUME LoginInv, [Next]_vars
  PROVE  \/ sent' = NoRequest
         \/ sent' = sent /\ UNCHANGED machine /\ (profile'.seed = profile.seed \/ stdin # <<>>)
         \/ RequestOk(sent', machine, profile.seed) /\ UNCHANGED <<machine, profile>>
<1>1. CASE Start
  BY <1>1 DEF Start
<1>2. CASE HandleImpl
  BY <1>2, StdinProfileOk DEF HandleImpl, LoginInv
<1>3. CASE PortalPrelogin \/ GatewayPrelogin \/ DirectPrelogin
  <2>1. \E server, isGateway : SendPrelogin(server, isGateway)
    BY <1>3 DEF PortalPrelogin, GatewayPrelogin, DirectPrelogin
  <2>2. UNCHANGED <<machine, profile>>
    BY <1>3 DEF PortalPrelogin, GatewayPrelogin, DirectPrelogin, process
  <2> QED BY <2>1, <2>2, SentByRun DEF LoginInv
<1>4. CASE PortalCredential \/ GatewayCredential \/ DirectCredential
  <2>1. \E allowed : Launch(allowed)
    BY <1>4 DEF PortalCredential, GatewayCredential, DirectCredential
  <2>2. UNCHANGED <<machine, profile>>
    BY <1>4 DEF PortalCredential, GatewayCredential, DirectCredential
  <2> QED BY <2>1, <2>2, SentByRun DEF LoginInv
<1>5. CASE RetrieveConfig
  <2>1. login.route = "portal" /\ login.cred \in SsoCreds(Portal, "portal", profile.hostId)
    BY <1>5 DEF LoginInv, SessionInv, RetrieveConfig
  <2>2. RequestOk(Request("getconfig", "portal", Portal, GetConfigParams, Blank),
                  machine, profile.seed)
    BY <2>1, ConfigRequestOk DEF LoginInv
  <2> QED BY <1>5, <2>2 DEF RetrieveConfig, process
<1>6. CASE RetrieveCscConfig
  <2>1. UNCHANGED <<machine, profile>>
    BY <1>6 DEF RetrieveCscConfig, process
  <2>2. sent' = sent \/ RequestOk(sent', machine, profile.seed)
    BY <1>6, CscRequestOk DEF RetrieveCscConfig, CscRequest, LoginInv
  <2> QED BY <2>1, <2>2
<1>7. CASE LoginGateway \/ Extend
  <2>1. CredentialOfRoute /\ ChallengeInv
    BY <1>7 DEF LoginInv, SessionInv, SessionPcs, LoginGateway, Extend
  <2>2. \E endpoint : SendLogin(endpoint)
    BY <1>7 DEF LoginGateway, Extend
  <2>3. RequestOk(sent', machine, profile.seed)
    BY <2>1, <2>2, LoginRequestOk DEF SendLogin, LoginInv
  <2>4. UNCHANGED <<machine, profile>>
    BY <1>7 DEF LoginGateway, Extend, process
  <2> QED BY <2>3, <2>4
<1>8. CASE Hip
  <2>1. login.token \in {Blank, Token(login.server)}
    BY <1>8 DEF Hip, LoginInv, SessionInv, SessionPcs
  <2>2. PICK asRoot \in HipUsers :
          sent' = [Request("hip", "gateway", login.server,
                           [passwd |-> Blank, token |-> login.token], Blank)
                   EXCEPT !.host = HipReport(machine, asRoot, profile.os, profile.seed).hostId,
                          !.answers = HipReport(machine, asRoot, profile.os, profile.seed).posture]
    BY <1>8 DEF Hip
  <2>3. RequestOk(sent', machine, profile.seed)
    BY <2>1, <2>2, HipRequestOk DEF LoginInv
  <2> QED BY <1>8, <2>3 DEF Hip, process
<1>9. CASE Locked \/ LoggedIn \/ ConnectFails \/ Established \/ TunnelEnds \/ UNCHANGED vars
  BY <1>9 DEF Locked, LoggedIn, ConnectFails, Established, TunnelEnds, vars, process
<1> QED BY <1>1, <1>2, <1>3, <1>4, <1>5, <1>6, <1>7, <1>8, <1>9 DEF Next

SentInv == RequestOk(sent, machine, profile.seed)

LEMMA SentInductive == Spec => []SentInv
<1>1. Init => SentInv
  <2>1. NoRequest.texts = {} /\ NoRequest.passwd = Blank /\ NoRequest.input = Blank
    BY DEF NoRequest
  <2> QED BY <2>1, PlainRequestOk DEF Init, SentInv
<1>2. LoginInv /\ SentInv /\ [Next]_vars => SentInv'
  <2> SUFFICES ASSUME LoginInv, SentInv, [Next]_vars PROVE SentInv'
    OBVIOUS
  <2>1. CASE sent' = NoRequest
    <3>1. NoRequest.texts = {} /\ NoRequest.passwd = Blank /\ NoRequest.input = Blank
      BY DEF NoRequest
    <3> QED BY <2>1, <3>1, PlainRequestOk DEF SentInv
  <2>2. CASE sent' = sent /\ UNCHANGED machine /\ (profile'.seed = profile.seed \/ stdin # <<>>)
    <3>1. sent.route = "cached" => profile'.seed = profile.seed
      BY <2>2 DEF LoginInv, StdinInv
    <3> QED BY <2>2, <3>1
            DEF SentInv, RequestOk, ShowsHost, InScope, AnswersChallenge, ShownId
  <2>3. CASE RequestOk(sent', machine, profile.seed) /\ UNCHANGED <<machine, profile>>
    BY <2>3 DEF SentInv, RequestOk, ShowsHost, InScope, AnswersChallenge, ShownId
  <2> QED BY <2>1, <2>2, <2>3, SentStep
<1> QED BY <1>1, <1>2, LoginInductive, PTL DEF Spec

\* Whatever cookie a request shows, it names the host that the cookie was
\* issued to: through a gpauth that gpclient starts without root or one that
\* ran before it, portal and gateway, the cookie cache of an earlier run, the
\* HIP report and the session's extension (os_profile/mod.rs, connect/*.rs).
THEOREM CookieShowsItsHost == Spec => []CredentialShowsItsHost
<1>1. LoginInv /\ SentInv => CredentialShowsItsHost
  <2> SUFFICES ASSUME LoginInv, SentInv PROVE CredentialShowsItsHost
    OBVIOUS
  <2>1. ASSUME NEW os \in ClientOs
        PROVE  OsProfile(machine, root, os, profile.seed, Blank).hostId =
                 ShownId(machine, os, profile.seed)
    BY ProfileOfSeed DEF LoginInv, ProfileInv, SolidTexts
  <2> QED BY <2>1 DEF SentInv, RequestOk, ShowsHost, CredentialShowsItsHost
<1> QED BY <1>1, LoginInductive, SentInductive, PTL

\* A cookie of an identity provider and a session's token go nowhere but to
\* the server and the role they are for; only what the portal's configuration
\* carries goes to gateways, and to gateways alone (connect/gateway.rs,
\* connect/portal.rs, credential.rs).
THEOREM CookieInScope == Spec => []CredentialScope
<1>1. SentInv => CredentialScope
  BY DEF SentInv, RequestOk, InScope, CredentialScope
<1> QED BY <1>1, SentInductive, PTL

\* What the user enters for a challenge is shown in the login that was
\* challenged, whatever gateways and credentials follow (mfa in
\* connect/gateway.rs, gp_params.rs).
THEOREM OtpStaysInItsLogin == Spec => []OtpAnswersChallenge
<1>1. SentInv => OtpAnswersChallenge
  BY DEF SentInv, RequestOk, AnswersChallenge, OtpAnswersChallenge
<1> QED BY <1>1, SentInductive, PTL

-----------------------------------------------------------------------------
(* The browser.                                                            *)

LEMMA BrowserStep ==
  ASSUME LoginInv, Next, sent'.endpoint = "gpauth", sent' # sent
  PROVE  sent'.browser = "external" <=>
           prelogin.external /\ prelogin.announced = ExternalBrowser(profile.os)
<1>1. ~ \/ Start \/ HandleImpl \/ Locked \/ PortalPrelogin \/ DirectPrelogin \/ GatewayPrelogin
        \/ RetrieveConfig \/ RetrieveCscConfig \/ LoginGateway \/ LoggedIn
        \/ ConnectFails \/ Established \/ Hip \/ Extend \/ TunnelEnds
  <2>1. ASSUME NEW endpoint, NEW role, NEW server, NEW params, NEW input
        PROVE  Request(endpoint, role, server, params, input).endpoint = endpoint
    BY RequestHas
  <2>2. ~Start
    <3>1. NoRequest.endpoint = "none"
      BY DEF NoRequest
    <3>2. Start => sent' = NoRequest
      BY DEF Start
    <3> QED BY <3>1, <3>2
  <2>3. ~ (HandleImpl \/ Locked \/ LoggedIn \/ ConnectFails \/ Established \/ TunnelEnds)
    BY DEF HandleImpl, Locked, LoggedIn, ConnectFails, Established, TunnelEnds
  <2>4. ASSUME NEW server, NEW isGateway, SendPrelogin(server, isGateway) PROVE FALSE
    BY <2>1, <2>4 DEF SendPrelogin
  <2>5. ~ (PortalPrelogin \/ DirectPrelogin \/ GatewayPrelogin)
    BY <2>4 DEF PortalPrelogin, DirectPrelogin, GatewayPrelogin
  <2>6. ~ (RetrieveConfig \/ LoginGateway \/ Extend)
    BY <2>1 DEF RetrieveConfig, LoginGateway, Extend, SendLogin
  <2>7. ~RetrieveCscConfig
    <3>1. RetrieveCscConfig => sent' = sent \/ sent'.endpoint = "csc"
      BY DEF RetrieveCscConfig, Request, NoRequest
    <3> QED BY <3>1
  <2>8. ~Hip
    <3>1. Hip => sent'.endpoint = "hip"
      BY DEF Hip, Request, NoRequest
    <3> QED BY <3>1
  <2> QED BY <2>2, <2>3, <2>5, <2>6, <2>7, <2>8
<1>2. PICK allowed, isGateway :
        /\ Launch(allowed) /\ isGateway \in BOOLEAN
        /\ prelogin.isGateway = isGateway /\ prelogin.announced = Announced(isGateway, allowed)
  <2>1. CASE PortalCredential
    BY <2>1 DEF PortalCredential, LoginInv, PreloginInv, PreloginOf
  <2>2. CASE DirectCredential
    BY <2>2 DEF DirectCredential, LoginInv, PreloginInv, PreloginOf
  <2>3. CASE GatewayCredential
    BY <2>3 DEF GatewayCredential, LoginInv, PreloginInv, PreloginOf
  <2> QED BY <1>1, <2>1, <2>2, <2>3 DEF Next
<1>3. sent'.browser = Browser(allowed)
  BY <1>2 DEF Launch, Request, NoRequest
<1>4. profile.os \in {"Linux", "Windows", "Mac"}
  BY HostIsSolid DEF LoginInv, ClientOs
<1>5. prelogin.announced = ExternalBrowser(profile.os) <=>
        args.browser /\ (~isGateway \/ allowed)
  BY <1>2, <1>4 DEF Announced, DefaultBrowser, BrowserMode, PreloginOptions, ExternalRequested,
                    ExternalBrowser
<1>6. Browser(allowed) = "external" <=>
        prelogin.external /\ (~isGateway \/ allowed) /\ args.browser
  BY <1>2 DEF Browser, CanUseExternalBrowser
<1> QED BY <1>3, <1>5, <1>6

\* gpauth opens the browser that the prelogin announced to the server
\* (default-browser of portal/prelogin.rs, --browser of gpauth), at the portal
\* as at every gateway that is tried.
THEOREM BrowserIsAnnounced == Spec => BrowserAsAnnounced
<1>1. LoginInv /\ [Next]_vars =>
        [sent'.endpoint = "gpauth" /\ sent' # sent =>
           (sent'.browser = "external" <=>
              prelogin.external /\ prelogin.announced = ExternalBrowser(profile.os))]_vars
  BY BrowserStep
<1> QED BY <1>1, LoginInductive, PTL DEF Spec, BrowserAsAnnounced

-----------------------------------------------------------------------------
(* The order of the gateways.                                              *)

ParsedGateways ==
  [name : STRING \cup {Portal}, address : STRING \cup {Portal}, kind : {"internal", "external"},
   priority : Nat, rules : Seq(Rules)]

LEMMA PriorityIs == ASSUME NEW number \in Nat PROVE Priority(number) \in Nat
BY PriorityAssumption DEF Priority

\* What is parsed is a list of gateways that is not empty.
LEMMA GatewaysParse ==
  ASSUME NEW doc \in Docs
  PROVE  GatewaysOf(doc, Portal) \in Seq(ParsedGateways) \ {<<>>}
<1> DEFINE Tag(kind, list) == [i \in DOMAIN list |->
             [name     |-> list[i].name,
              address  |-> list[i].address,
              kind     |-> kind,
              priority |-> Priority(list[i].priority),
              rules    |-> [j \in DOMAIN list[i].rules |->
                             [list[i].rules[j] EXCEPT !.priority = Priority(@)]]]]
<1>1. ASSUME NEW rules \in Seq(Rules)
      PROVE  [j \in DOMAIN rules |-> [rules[j] EXCEPT !.priority = Priority(@)]] \in Seq(Rules)
  <2>1. \A j \in DOMAIN rules : [rules[j] EXCEPT !.priority = Priority(@)] \in Rules
    <3> SUFFICES ASSUME NEW j \in DOMAIN rules
                 PROVE  [rules[j] EXCEPT !.priority = Priority(@)] \in Rules
      OBVIOUS
    <3>1. rules[j] \in Rules
      BY <1>1, LenProperties, ElementOfSeq
    <3>2. rules[j].priority \in Nat
      BY <3>1 DEF Rules
    <3>3. Priority(rules[j].priority) \in Nat
      BY <3>2, PriorityIs
    <3> QED BY <3>1, <3>3 DEF Rules
  <2>2. DOMAIN rules = 1..Len(rules) /\ Len(rules) \in Nat
    BY LenProperties
  <2> QED BY <2>1, <2>2, SeqDef
<1>2. ASSUME NEW kind \in {"internal", "external"}, NEW list \in Seq(Gateways)
      PROVE  Tag(kind, list) \in Seq(ParsedGateways)
  <2>1. ASSUME NEW i \in DOMAIN list
        PROVE  Tag(kind, list)[i] \in ParsedGateways
    <3>1. list[i] \in Gateways
      BY LenProperties, ElementOfSeq
    <3>2. /\ list[i].name \in STRING /\ list[i].address \in STRING
          /\ list[i].priority \in Nat /\ list[i].rules \in Seq(Rules)
      BY <3>1 DEF Gateways
    <3>3. Priority(list[i].priority) \in Nat
      BY <3>2, PriorityIs
    <3>4. [j \in DOMAIN list[i].rules |-> [list[i].rules[j] EXCEPT !.priority = Priority(@)]]
            \in Seq(Rules)
      BY <1>1, <3>2
    <3> QED BY <3>2, <3>3, <3>4 DEF ParsedGateways
  <2>2. DOMAIN list = 1..Len(list) /\ Len(list) \in Nat
    BY LenProperties
  <2>3. Tag(kind, list) \in [1..Len(list) -> ParsedGateways]
    BY <2>1, <2>2
  <2> QED BY <2>2, <2>3, SeqDef
<1>3. NewGateway(Portal) \in ParsedGateways
  BY DEF NewGateway, ParsedGateways
<1>4. doc.internal \in Seq(Seq(Gateways)) /\ doc.external \in Seq(Seq(Gateways))
  BY LoginAssumption
<1>5. /\ doc.internal # <<>> => Head(doc.internal) \in Seq(Gateways)
      /\ doc.external # <<>> => Head(doc.external) \in Seq(Gateways)
  BY <1>4, HeadTailProperties
<1> HIDE DEF Tag
<1>6. ASSUME NEW internal \in BOOLEAN
      PROVE  \/ ParseGateways(doc, internal) = <<>>
             \/ \E gateways \in Seq(ParsedGateways) : ParseGateways(doc, internal) = <<gateways>>
  <2>1. ParseGateways(doc, internal) =
          Option((IF internal /\ doc.internal # <<>>
                  THEN <<Tag("internal", Head(doc.internal))>> ELSE <<>>)
                 \o (IF doc.external # <<>>
                     THEN <<Tag("external", Head(doc.external))>> ELSE <<>>))
    BY DEF ParseGateways, Tag
  <2>2. CASE internal /\ doc.internal # <<>>
    <3>1. ParseGateways(doc, internal) = <<Tag("internal", Head(doc.internal))>>
      BY <2>1, <2>2 DEF Option
    <3> QED BY <3>1, <2>2, <1>2, <1>5
  <2>3. CASE ~(internal /\ doc.internal # <<>>) /\ doc.external # <<>>
    <3>1. ParseGateways(doc, internal) = <<Tag("external", Head(doc.external))>>
      BY <2>1, <2>3 DEF Option
    <3> QED BY <3>1, <2>3, <1>2, <1>5
  <2>4. CASE ~(internal /\ doc.internal # <<>>) /\ doc.external = <<>>
    BY <2>1, <2>4 DEF Option
  <2> QED BY <2>2, <2>3, <2>4
<1>7. PICK internal \in BOOLEAN :
        LET parsed == ParseGateways(doc, internal)
        IN  GatewaysOf(doc, Portal) =
              IF parsed = <<>> \/ parsed = <<<<>>>> THEN <<NewGateway(Portal)>> ELSE Head(parsed)
  BY DEF GatewaysOf, InternalHostDetect
<1>8. <<NewGateway(Portal)>> \in Seq(ParsedGateways) \ {<<>>}
  BY <1>3
<1> QED BY <1>6, <1>7, <1>8

\* A gateway that is looked for among some that are there is the first.
LEMMA FirstIndex ==
  ASSUME NEW n \in Nat, NEW I \in SUBSET (1..n), I # {}
  PROVE  Min(I) \in I /\ Min(I) \in 1..n
<1>1. I \in SUBSET Nat
  OBVIOUS
<1>2. Min(I) \in I
  BY <1>1, LeastIs
<1> QED BY <1>2

\* The preferred gateway, of the least rule or else of the least priority.
LEMMA PreferredIs ==
  ASSUME NEW gateways \in Seq(ParsedGateways) \ {<<>>}, NEW region
  PROVE  LET k == PreferredIndex(gateways, region)
             Of(gateway) == {rule.priority : rule \in Matching(gateway, region)}
         IN  /\ k \in DOMAIN gateways
             /\ \/ \E p \in Of(gateways[k]) :
                     \A i \in DOMAIN gateways : \A q \in Of(gateways[i]) : p <= q
                \/ \A i \in DOMAIN gateways :
                     Of(gateways[i]) = {} /\ gateways[k].priority <= gateways[i].priority
<1> DEFINE n      == Len(gateways)
           rules  == UNION {Matching(gateways[i], region) : i \in DOMAIN gateways}
           ranks  == {rule.priority : rule \in rules}
           levels == {gateways[i].priority : i \in DOMAIN gateways}
           least  == Min(ranks)
           lowest == Min(levels)
           ByRule == {i \in 1..n : \E rule \in Matching(gateways[i], region) : rule.priority = least}
           ByOwn  == {i \in 1..n : gateways[i].priority = lowest}
<1>1. DOMAIN gateways = 1..n /\ n \in Nat /\ n > 0
  BY LenProperties, EmptySeq
<1>2. \A i \in 1..n : gateways[i] \in ParsedGateways
  BY ElementOfSeq
<1>3. \A i \in 1..n : /\ gateways[i].priority \in Nat
                      /\ \A rule \in Matching(gateways[i], region) : rule.priority \in Nat
  <2> SUFFICES ASSUME NEW i \in 1..n
               PROVE  /\ gateways[i].priority \in Nat
                      /\ \A rule \in Matching(gateways[i], region) : rule.priority \in Nat
    OBVIOUS
  <2>1. gateways[i].priority \in Nat /\ gateways[i].rules \in Seq(Rules)
    BY <1>2 DEF ParsedGateways
  <2>2. ToSet(gateways[i].rules) \subseteq Rules
    BY <2>1, ElementOfSeq, LenProperties DEF ToSet
  <2> QED BY <2>1, <2>2 DEF Matching, Rules
<1>4. CASE rules # {}
  <2>1. ranks \in SUBSET Nat /\ ranks # {}
    BY <1>1, <1>3, <1>4
  <2>2. least \in ranks /\ \A q \in ranks : least <= q
    BY <2>1, LeastIs
  <2>3. ByRule # {} /\ ByRule \in SUBSET (1..n)
    BY <1>1, <2>2
  <2>4. PreferredIndex(gateways, region) = Min(ByRule)
    BY <1>4, <2>3 DEF PreferredIndex, SelectInSeq
  <2> HIDE DEF ByRule
  <2>5. Min(ByRule) \in ByRule /\ Min(ByRule) \in 1..n
    BY <1>1, <2>3, FirstIndex
  <2>6. \E rule \in Matching(gateways[Min(ByRule)], region) : rule.priority = least
    BY <2>5 DEF ByRule
  <2>7. \A i \in 1..n : \A rule \in Matching(gateways[i], region) : rule.priority \in ranks
    BY <1>1
  <2> HIDE DEF least, ranks
  <2> QED BY <1>1, <2>2, <2>4, <2>5, <2>6, <2>7
<1>5. CASE rules = {}
  <2>1. levels \in SUBSET Nat /\ levels # {}
    BY <1>1, <1>3
  <2>2. lowest \in levels /\ \A q \in levels : lowest <= q
    BY <2>1, LeastIs
  <2>3. ByOwn # {} /\ ByOwn \in SUBSET (1..n)
    BY <1>1, <2>2
  <2>4. PreferredIndex(gateways, region) = Min(ByOwn)
    BY <1>5, <2>3 DEF PreferredIndex, SelectInSeq
  <2> HIDE DEF ByOwn
  <2>5. Min(ByOwn) \in ByOwn /\ Min(ByOwn) \in 1..n
    BY <1>1, <2>3, FirstIndex
  <2>6. gateways[Min(ByOwn)].priority = lowest
    BY <2>5 DEF ByOwn
  <2>7. \A i \in 1..n : Matching(gateways[i], region) = {} /\ gateways[i].priority \in levels
    BY <1>1, <1>5
  <2> HIDE DEF lowest, levels
  <2> QED BY <1>1, <2>2, <2>4, <2>5, <2>6, <2>7
<1> QED BY <1>4, <1>5

\* Sorting puts the preferred gateway first, if it is found by its name, and
\* keeps the others.
LEMMA SortedOrder ==
  ASSUME NEW gateways \in Seq(ParsedGateways) \ {<<>>}, NEW region,
         NamesDiffer(SortGateways(gateways, region))
  PROVE  LET sorted == SortGateways(gateways, region)
         IN  /\ Head(sorted) = gateways[PreferredIndex(gateways, region)]
             /\ \A gateway \in ToSet(sorted) : \E i \in DOMAIN gateways : gateway = gateways[i]
<1> DEFINE n == Len(gateways)
           k == PreferredIndex(gateways, region)
           I == {i \in 1..n : gateways[i].name = gateways[k].name}
           m == Min(I)
           sorted == SortGateways(gateways, region)
<1>1. DOMAIN gateways = 1..n /\ n \in Nat /\ n > 0
  BY LenProperties, EmptySeq
<1>2. k \in 1..n
  BY <1>1, PreferredIs
<1>3. I # {} /\ I \in SUBSET (1..n)
  BY <1>2
<1>4. m \in 1..n /\ gateways[m].name = gateways[k].name
  BY <1>1, <1>3, FirstIndex
<1>5. PositionOf(gateways, gateways[k]) = m
  BY <1>3 DEF PositionOf, SelectInSeq
<1>6. sorted = [gateways EXCEPT ![1] = gateways[m], ![m] = gateways[1]]
  BY <1>5 DEF SortGateways, Swapped
<1> HIDE DEF k, m, sorted
<1>7. /\ DOMAIN sorted = 1..n
      /\ \A i \in 1..n : sorted[i] = IF i = 1 THEN gateways[m]
                                     ELSE IF i = m THEN gateways[1] ELSE gateways[i]
  BY <1>1, <1>4, <1>6
<1>8. k = m
  <2> DEFINE At(i) == IF i = 1 THEN m ELSE IF i = m THEN 1 ELSE i
  <2>1. At(k) \in 1..n /\ At(m) \in 1..n
    BY <1>1, <1>2, <1>4
  <2>2. sorted[At(k)] = gateways[k] /\ sorted[At(m)] = gateways[m]
    BY <1>1, <1>2, <1>4, <1>7
  <2>3. At(k) = At(m)
    BY <1>4, <1>7, <2>1, <2>2 DEF NamesDiffer, sorted
  <2> QED BY <2>3, <1>2, <1>4
<1>9. Head(sorted) = gateways[k]
  BY <1>1, <1>7, <1>8
<1>10. \A gateway \in ToSet(sorted) : \E i \in DOMAIN gateways : gateway = gateways[i]
  BY <1>1, <1>4, <1>7 DEF ToSet
<1> QED BY <1>9, <1>10 DEF sorted, k

\* The gateway that is tried first is one that the portal prefers for the
\* region of the prelogin (portal/config.rs, sort_gateways).
THEOREM PreferredGatewayFirst == Spec => PreferredFirst
<1> DEFINE Preferred(gateways) ==
             LET all   == ToSet(gateways)
                 first == Head(gateways)
             IN  NamesDiffer(gateways) =>
                   \/ \E p \in Ranks(first) : \A gateway \in all : \A q \in Ranks(gateway) : p <= q
                   \/ \A gateway \in all : Ranks(gateway) = {} /\ first.priority <= gateway.priority
<1>1. ASSUME NEW doc \in Docs
      PROVE  Preferred(SortGateways(GatewaysOf(doc, Portal), prelogin.region))
  <2> DEFINE gateways == GatewaysOf(doc, Portal)
             sorted   == SortGateways(gateways, prelogin.region)
             k        == PreferredIndex(gateways, prelogin.region)
  <2> SUFFICES ASSUME NamesDiffer(sorted) PROVE Preferred(sorted)
    OBVIOUS
  <2>1. gateways \in Seq(ParsedGateways) \ {<<>>}
    BY GatewaysParse
  <2> HIDE DEF gateways
  <2>2. /\ Head(sorted) = gateways[k]
        /\ \A gateway \in ToSet(sorted) : \E i \in DOMAIN gateways : gateway = gateways[i]
    BY <2>1, SortedOrder
  <2>3. \/ \E p \in Ranks(gateways[k]) :
             \A i \in DOMAIN gateways : \A q \in Ranks(gateways[i]) : p <= q
        \/ \A i \in DOMAIN gateways :
             Ranks(gateways[i]) = {} /\ gateways[k].priority <= gateways[i].priority
    BY <2>1, PreferredIs DEF Ranks
  <2> HIDE DEF sorted, k
  <2> QED BY <2>2, <2>3
<1>2. Configured => Preferred(config'[1].gateways)
  <2> SUFFICES ASSUME Configured PROVE Preferred(config'[1].gateways)
    OBVIOUS
  <2>1. PICK doc \in Docs :
          config'[1].gateways = SortGateways(GatewaysOf(doc, Portal), prelogin.region)
    BY DEF Configured, ParseConfig
  <2> HIDE DEF Preferred
  <2> QED BY <1>1, <2>1
<1>3. Next => \/ config' = config \/ config' = <<>> \/ Configured
  BY DEF Next, Start, HandleImpl, Locked, PortalPrelogin, DirectPrelogin, GatewayPrelogin,
         PortalCredential, DirectCredential, GatewayCredential, RetrieveConfig,
         RetrieveCscConfig, NotConfigured, LoginGateway, LoggedIn, ConnectFails, Established, Hip,
         Extend, TunnelEnds
<1>4. [Next]_vars =>
        [config' \notin {config, <<>>} => Preferred(config'[1].gateways)]_vars
  <2> HIDE DEF Preferred
  <2> QED BY <1>2, <1>3
<1> QED BY <1>4, PTL DEF Spec, PreferredFirst
=============================================================================
