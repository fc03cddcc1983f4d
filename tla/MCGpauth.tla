------------------------------ MODULE MCGpauth ------------------------------
\* Gpauth with a login page, an answer in the headers, and a page whose headers
\* are of a failed login while its text names the callback.
EXTENDS Gpauth

Text(s, u, c) == [status |-> s, user |-> u, prelogin |-> c, portal |-> 0]
Nothing == Text("none", "", 0)
Answer == Text("one", "name", 6)
Plain(h, t) == [unavailable |-> FALSE, headers |-> h, text |-> t, callbacks |-> {}]

SomePages == {
  Plain(Nothing, Nothing), Plain(Answer, Nothing),
  [Plain(Text("other", "", 0), Nothing) EXCEPT
     !.callbacks = {[form |-> "cas", page |-> Text("none", "name", 0)]}]}
=============================================================================
