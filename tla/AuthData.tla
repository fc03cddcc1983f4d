------------------------------- MODULE AuthData -------------------------------
(***************************************************************************)
(* What gpauth takes for an answer of the identity provider: SamlAuthData  *)
(* read from headers, from a page or from a globalprotectcallback URL.     *)
(*                                                                         *)
(* A text is what the parsers tell apart: its saml-auth-status, whether    *)
(* the user name is there, and the lengths of its two cookies.             *)
(***************************************************************************)
EXTENDS Naturals

TooShort == 5

\* saml-auth-status is absent, "1" or another one.
SamlText == [status : {"none", "one", "other"}, user : {"", "name"},
             prelogin : {0, 5, 6}, portal : {0, 5, 6}]

\* SamlAuthData::new takes a user with one cookie that is long enough.
IsAuthData(t) ==
  t.user # "" /\ (t.prelogin > TooShort \/ t.portal > TooShort)

\* from_html: "data", or the error, "invalid" or "notFound".
FromHtml(t) ==
  CASE t.status = "none" -> "notFound"
    [] t.status = "one" /\ IsAuthData(t) -> "data"
    [] OTHER -> "invalid"

\* A callback: "cas" data needs its user name, everything else must be base64
\* of a page.
Callback == [form : {"cas", "base64", "garbage"}, page : SamlText]

FromCallback(c) ==
  CASE c.form = "cas" -> IF c.page.user # "" THEN "data" ELSE "invalid"
    [] c.form = "base64" -> FromHtml(c.page)
    [] c.form = "garbage" -> "invalid"

\* A page of the web view: its headers, whether it is unavailable, its own
\* text, and the callbacks that are written in it (one at most).
Page == [unavailable : BOOLEAN, text : SamlText, headers : SamlText, callbacks : SUBSET Callback]

\* read_from_html: the callback is the second choice, whatever was wrong
\* with the first.
ReadFromHtml(p) ==
  CASE p.unavailable -> "invalid"
    [] ~p.unavailable /\ FromHtml(p.text) = "data" -> "data"
    [] OTHER -> IF p.callbacks = {} THEN FromHtml(p.text)
                ELSE FromCallback(CHOOSE c \in p.callbacks : TRUE)

\* The events read_from_response makes of the headers: of a bad status or bad
\* data there nothing is said, as the body may be better.
ReadFromResponse(t) ==
  CASE t.status = "none" -> <<"notFound">>
    [] t.status = "one" /\ IsAuthData(t) -> <<"data">>
    [] OTHER -> <<>>
=============================================================================
