---------------------------- MODULE Credentials ----------------------------
(***************************************************************************)
(* What the user or a server has given to log in with (credential.rs), how *)
(* a request shows it (params/credential.rs), and what is kept of it for   *)
(* the next run (cookie_store.rs).  Texts are those of HostProfile; a      *)
(* cookie is a text that names who issued it, as what, and to which host.  *)
(***************************************************************************)
EXTENDS HostProfile

Empty == <<"empty">>

\* What `server' issues, as a portal or a gateway, to the host it was shown.
Issued(server, kind, host) == <<"issued", server, kind>> \o host
IsIssued(text) == text # Blank /\ Head(text) = "issued"
Issuer(text)   == <<text[2], text[3]>>
IssuedTo(text) == SubSeq(text, 4, Len(text))

-----------------------------------------------------------------------------
Password(password) == [type |-> "password", passwd |-> password]

\* SamlAuthData as a credential: a prelogin cookie, a user-auth cookie and a
\* token, as far as the page had them.
Prelogin(preloginCookie, userCookie, token) ==
  [type |-> "prelogin", preloginCookie |-> preloginCookie,
   userCookie |-> userCookie, token |-> token]

AuthCookie(userCookie, prelogonCookie) ==
  [type |-> "authCookie", userCookie |-> userCookie,
   prelogonCookie |-> prelogonCookie, passwd |-> Blank]

\* A blank password is no password.
WithPassword(authCookie, password) == [authCookie EXCEPT !.passwd = password]

\* with_password(cred.password()) for a portal configuration's cookies.
CarryPassword(authCookie, cred) ==
  IF cred.type = "password" THEN WithPassword(authCookie, cred.passwd)
                            ELSE authCookie

IsGatewayAuthCookie(text) == text \notin {Blank, Empty}

CanAuthenticateGateway(authCookie) ==
  \/ IsGatewayAuthCookie(authCookie.userCookie)
  \/ IsGatewayAuthCookie(authCookie.prelogonCookie)

-----------------------------------------------------------------------------
PortalCookieParam(text) == NonEmpty(text, Empty)

\* The parameters of a request, with the one-time password in the password's
\* place when there is one.
LoginParams(cred, os, otp) ==
  LET shown ==
    CASE cred.type = "password" ->
           [passwd |-> cred.passwd, preloginCookie |-> Blank,
            userCookie |-> Empty, prelogonCookie |-> Empty, token |-> Blank]
      [] cred.type = "prelogin" ->
           [passwd |-> SamlPassword(os), preloginCookie |-> cred.preloginCookie,
            userCookie |-> PortalCookieParam(cred.userCookie),
            prelogonCookie |-> Empty, token |-> cred.token]
      [] cred.type = "authCookie" ->
           [passwd |-> NonEmpty(cred.passwd, SamlPassword(os)), preloginCookie |-> Blank,
            userCookie |-> PortalCookieParam(cred.userCookie),
            prelogonCookie |-> PortalCookieParam(cred.prelogonCookie), token |-> Blank]
  IN  [shown EXCEPT !.passwd = NonEmpty(otp, @)]

-----------------------------------------------------------------------------
(* The cookie cache: none, or one record.                                  *)

\* The password is not serialized.
StoredCookie(server, seed, gateway, authCookie) ==
  [server |-> server, seed |-> seed, lastGateway |-> gateway,
   authCookie |-> [authCookie EXCEPT !.passwd = Blank]]

Load(store, server, seed) ==
  IF store # <<>> /\ store[1].server = server /\ store[1].seed = seed THEN store ELSE <<>>

Save(stored) == <<stored>>
Clear == <<>>
=============================================================================
