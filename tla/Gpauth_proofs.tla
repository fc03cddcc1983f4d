--------------------------- MODULE Gpauth_proofs ---------------------------
(***************************************************************************)
(* Proofs about Gpauth for any number of logins and forwarders, any pages  *)
(* and any number of loads.                                                *)
(***************************************************************************)
EXTENDS Gpauth, SequenceTheorems, TLAPS

LEMMA Constants ==
  /\ BrowserAuth \cap WebviewAuth = {} /\ NoAuth \notin Auth
  /\ Pages \subseteq Page /\ MaxLoads \in Nat
  BY GpauthAssumption DEF GpauthAssumption

USE Constants
USE DEF Auth, fileVars, viewVars, viewRest

-----------------------------------------------------------------------------
(* What the pages are read as                                              *)

LEMMA HtmlType == ASSUME NEW t PROVE FromHtml(t) \in Event
  BY DEF FromHtml, Event

LEMMA CallbackType == ASSUME NEW c \in Callback PROVE FromCallback(c) \in Event
<1>1. c.form = "cas" \/ c.form = "base64" \/ c.form = "garbage"
  BY DEF Callback
<1>2. CASE c.form = "cas"
  BY <1>2 DEF FromCallback, Event
<1>3. CASE c.form = "base64"
  BY <1>3, HtmlType DEF FromCallback
<1>4. CASE c.form = "garbage"
  BY <1>4 DEF FromCallback, Event
<1>5. QED BY <1>1, <1>2, <1>3, <1>4

\* Whatever page is shown, reading it yields one event.
LEMMA PageType == ASSUME NEW p \in Pages \cup {NoPage} PROVE ReadFromHtml(p) \in Event
<1>1. p.callbacks \subseteq Callback
  <2>1. CASE p = NoPage
    BY <2>1 DEF NoPage
  <2>2. CASE p \in Page
    BY <2>2 DEF Page
  <2>3. QED BY <2>1, <2>2
<1>2. CASE p.callbacks = {}
  BY <1>2, HtmlType DEF ReadFromHtml, Event
<1>3. CASE p.callbacks # {}
  <2>1. (CHOOSE c \in p.callbacks : TRUE) \in Callback
    BY <1>1, <1>3
  <2>2. FromCallback(CHOOSE c \in p.callbacks : TRUE) \in Event
    BY <2>1, CallbackType
  <2>3. QED BY <1>3, <2>2, HtmlType DEF ReadFromHtml, Event
<1>4. QED BY <1>2, <1>3

LEMMA HeadersType == ASSUME NEW t PROVE ReadFromResponse(t) \in Seq(Event)
<1>1. <<"notFound">> \in Seq(Event) /\ <<"data">> \in Seq(Event) /\ <<>> \in Seq(Event)
  BY DEF Event
<1>2. ReadFromResponse(t) \in {<<"notFound">>, <<"data">>, <<>>}
  BY Zenon DEF ReadFromResponse
<1>3. QED BY <1>1, <1>2

-----------------------------------------------------------------------------
(* Types                                                                   *)

LEMMA InitType == Init => TypeOK
<1> SUFFICES ASSUME Init PROVE TypeOK
  OBVIOUS
<1>1. ProcessTypes
  BY DEF Init, ProcessTypes
<1>2. FileTypes
  BY DEF Init, FileTypes, Forwarding
<1>3. queue \in [WebviewAuth -> Seq(Event)]
  BY DEF Init
<1>4. loads \in [WebviewAuth -> Load] /\ window \in [WebviewAuth -> Window]
  BY DEF Init, Load, Window, NoLoads, NoWindow
<1>5. page \in [WebviewAuth -> Pages \cup {NoPage}]
  BY DEF Init
<1>6. QED BY <1>1, <1>2, <1>3, <1>4, <1>5 DEF TypeOK, ViewTypes

\* The end of a login.
LEMMA EndType ==
  ASSUME ProcessTypes, NEW a \in Auth, NEW r \in {"success", "failure", "unclosed"}, End(a, r)
  PROVE  ProcessTypes'
  BY DEF ProcessTypes, End

\* Nothing is left of a web view whose process is over.
LEMMA GoneType == ASSUME ViewTypes, NEW a \in WebviewAuth, Gone(a) PROVE ViewTypes'
<1>1. NoLoads \in Load /\ NoWindow \in Window /\ <<>> \in Seq(Event)
  BY DEF NoLoads, Load, NoWindow, Window
<1>2. queue' \in [WebviewAuth -> Seq(Event)] /\ page' \in [WebviewAuth -> Pages \cup {NoPage}]
  BY <1>1 DEF Gone, ViewTypes
<1>3. loads' \in [WebviewAuth -> Load] /\ window' \in [WebviewAuth -> Window]
  BY <1>1 DEF Gone, ViewTypes
<1>4. QED BY <1>2, <1>3 DEF ViewTypes

LEMMA ViewUnchanged == ViewTypes /\ UNCHANGED viewVars => ViewTypes'
  BY DEF ViewTypes

LEMMA FileUnchanged == FileTypes /\ UNCHANGED <<fileVars, forward>> => FileTypes'
  BY DEF FileTypes

LEMMA BrowserType ==
  ASSUME TypeOK, NEW a \in BrowserAuth, BrowserStep(a)
  PROVE  TypeOK'
<1> USE DEF TypeOK
<1>1. CASE OpenBrowser(a)
  <2>1. ProcessTypes'
    BY <1>1, EndType DEF OpenBrowser, ProcessTypes
  <2>2. QED BY <1>1, <2>1, ViewUnchanged, FileUnchanged DEF OpenBrowser
<1>2. CASE WritePortFile(a)
  <2>1. ProcessTypes'
    BY <1>2, EndType DEF WritePortFile, ProcessTypes
  <2>2. FileTypes'
    BY <1>2 DEF WritePortFile, Overwritten, FileTypes
  <2>3. QED BY <1>2, <2>1, <2>2, ViewUnchanged DEF WritePortFile
<1>3. CASE Accept(a)
  <2>1. ProcessTypes'
    BY <1>3 DEF Accept, ProcessTypes
  <2>2. QED BY <1>3, <2>1, ViewUnchanged, FileUnchanged DEF Accept
<1>4. CASE Parse(a)
  <2>1. ProcessTypes'
    BY <1>4, EndType DEF Parse
  <2>2. FileTypes'
    BY <1>4 DEF Parse, FileTypes
  <2>3. QED BY <1>4, <2>1, <2>2, ViewUnchanged DEF Parse
<1>5. QED BY <1>1, <1>2, <1>3, <1>4 DEF BrowserStep

LEMMA ForwardType ==
  ASSUME TypeOK, NEW f \in Forwarder, ReadPort(f) \/ Connect(f)
  PROVE  TypeOK'
<1> USE DEF TypeOK
<1>1. CASE ReadPort(f)
  <2>1. FileTypes'
    BY <1>1 DEF ReadPort, FileTypes, Forwarding
  <2>2. QED BY <1>1, <2>1, ViewUnchanged DEF ReadPort, ProcessTypes
<1>2. CASE Connect(f)
  <2>1. forward' \in [Forwarder -> Forwarding]
        /\ \A g \in Forwarder : forward'[g].pc = "connect" => forward'[g].port # NoAuth
    BY <1>2 DEF Connect, FileTypes, Forwarding
  <2>2. forward[f].port \in BrowserAuth
    BY <1>2 DEF Connect, FileTypes, Forwarding
  <2>3. inbox' \in [BrowserAuth -> {"none", "data", "invalid", "notFound", "broken"}]
    BY <1>2, <2>2 DEF Connect, FileTypes
  <2>4. QED BY <1>2, <2>1, <2>3, ViewUnchanged DEF Connect, FileTypes, ProcessTypes
<1>3. QED BY <1>1, <1>2

-----------------------------------------------------------------------------
(* The web view                                                            *)

LEMMA PutType ==
  ASSUME ViewTypes, NEW a \in WebviewAuth, NEW e \in Event, Put(a, e)
  PROVE  queue' \in [WebviewAuth -> Seq(Event)]
  BY DEF ViewTypes, Put

\* One field of a window changes.
LEMMA WindowType ==
  ASSUME ViewTypes, NEW a \in WebviewAuth, NEW w \in Window, window' = [window EXCEPT ![a] = w]
  PROVE  window' \in [WebviewAuth -> Window]
  BY DEF ViewTypes

LEMMA ShownType ==
  ASSUME ViewTypes, NEW a \in WebviewAuth, NEW x \in {"yes", "no", "failed"},
         window' = [window EXCEPT ![a].shown = x]
  PROVE  window' \in [WebviewAuth -> Window]
<1>1. window[a] \in Window
  BY DEF ViewTypes
<1>2. [window[a] EXCEPT !.shown = x] \in Window
  BY <1>1 DEF Window
<1>3. QED BY <1>2, WindowType

LEMMA LateType ==
  ASSUME ViewTypes, NEW a \in WebviewAuth, window' = [window EXCEPT ![a].late = "over"]
  PROVE  window' \in [WebviewAuth -> Window]
<1>1. window[a] \in Window
  BY DEF ViewTypes
<1>2. [window[a] EXCEPT !.late = "over"] \in Window
  BY <1>1 DEF Window
<1>3. QED BY <1>2, WindowType

LEMMA TokenType ==
  ASSUME ViewTypes, NEW a \in WebviewAuth, NEW x \in {"none", "set", "over"},
         window' = [window EXCEPT ![a].token = x]
  PROVE  window' \in [WebviewAuth -> Window]
<1>1. window[a] \in Window
  BY DEF ViewTypes
<1>2. [window[a] EXCEPT !.token = x] \in Window
  BY <1>1 DEF Window
<1>3. QED BY <1>2, WindowType

\* A load whose state and whose count of reads change is a load.
LEMMA CountType ==
  ASSUME NEW l \in Load, NEW n \in Nat
  PROVE  /\ [l EXCEPT !.reads = n] \in Load
         /\ [l EXCEPT !.state = "finished", !.reads = n] \in Load
<1>1. [l EXCEPT !.reads = n] \in Load
  BY DEF Load
<1>2. [l EXCEPT !.state = "finished", !.reads = n] \in Load
  <2>1. [l EXCEPT !.state = "finished"] \in Load
    BY DEF Load
  <2>2. [[l EXCEPT !.state = "finished"] EXCEPT !.reads = n] \in Load
    BY <2>1 DEF Load
  <2>3. [l EXCEPT !.state = "finished", !.reads = n]
          = [[l EXCEPT !.state = "finished"] EXCEPT !.reads = n]
    OBVIOUS
  <2>4. QED BY <2>2, <2>3
<1>3. QED BY <1>1, <1>2

\* The handlers put events into the queue.
LEMMA HandlerType ==
  ASSUME TypeOK, NEW a \in WebviewAuth,
         SetUp(a) \/ LoadStarted(a) \/ LoadFinished(a) \/ HtmlRead(a) \/ TlsFails(a)
         \/ CloseRequested(a) \/ AppEnds(a) \/ TimeToRaise(a)
  PROVE  TypeOK'
<1> USE DEF TypeOK
<1>1. FileTypes'
  BY FileUnchanged
  DEF SetUp, LoadStarted, LoadFinished, HtmlRead, TlsFails, CloseRequested, AppEnds, TimeToRaise
<1>2. CASE SetUp(a)
  <2>1. ProcessTypes'
    BY <1>2, EndType DEF SetUp, ProcessTypes
  <2>2. CASE Gone(a)
    BY <1>1, <2>1, <2>2, GoneType
  <2>3. ASSUME NEW clean \in {"yes", "no"}, window' = [window EXCEPT ![a].shown = clean],
               UNCHANGED <<page, loads, queue>>
        PROVE  TypeOK'
    <3>1. window' \in [WebviewAuth -> Window]
      BY <2>3, ShownType
    <3>2. QED BY <1>1, <2>1, <2>3, <3>1 DEF ViewTypes
  <2>4. QED BY <1>2, <2>2, <2>3 DEF SetUp
<1>3. CASE LoadStarted(a)
  <2>1. loads' \in [WebviewAuth -> Load]
    <3>1. loads[a].begun \in Nat /\ loads[a].begun < MaxLoads
      BY <1>3 DEF LoadStarted, ViewTypes, Load
    <3>2. [begun |-> loads[a].begun + 1, state |-> "started", reads |-> 1] \in Load
      BY <3>1 DEF Load
    <3>3. QED BY <1>3, <3>2 DEF LoadStarted, ViewTypes
  <2>2. window' \in [WebviewAuth -> Window]
    BY <1>3, TokenType DEF LoadStarted
  <2>3. QED BY <1>1, <1>3, <2>1, <2>2 DEF LoadStarted, ViewTypes, ProcessTypes
<1>4. CASE LoadFinished(a)
  <2>1. queue' \in [WebviewAuth -> Seq(Event)]
    <3>1. PICK r \in {ReadFromResponse(page[a].headers), <<"invalid">>} :
            queue' = [queue EXCEPT ![a] = @ \o r]
      BY <1>4 DEF LoadFinished
    <3>2. r \in Seq(Event)
      BY HeadersType, <3>1 DEF Event
    <3>3. QED BY <3>1, <3>2 DEF ViewTypes
  <2>2. loads' \in [WebviewAuth -> Load]
    <3> DEFINE l == [loads[a] EXCEPT !.state = "finished", !.reads = loads[a].reads + 1]
    <3>1. loads[a] \in Load /\ loads[a].reads + 1 \in Nat
      BY DEF ViewTypes, Load
    <3>2. l \in Load
      BY <3>1, CountType
    <3>3. loads' = [loads EXCEPT ![a] = l]
      BY <1>4 DEF LoadFinished
    <3>4. QED BY <3>2, <3>3 DEF ViewTypes
  <2>3. QED BY <1>1, <1>4, <2>1, <2>2 DEF LoadFinished, ViewTypes, ProcessTypes
<1>5. CASE HtmlRead(a)
  <2>1. queue' \in [WebviewAuth -> Seq(Event)]
    BY <1>5, PutType, PageType DEF HtmlRead, ViewTypes
  <2>2. loads' \in [WebviewAuth -> Load]
    <3>1. loads[a] \in Load /\ loads[a].reads > 0
      BY <1>5 DEF HtmlRead, ViewTypes
    <3>2. loads[a].reads - 1 \in Nat
      BY <3>1 DEF Load
    <3>3. [loads[a] EXCEPT !.reads = @ - 1] \in Load
      BY <3>1, <3>2, CountType
    <3>4. loads' = [loads EXCEPT ![a] = [loads[a] EXCEPT !.reads = @ - 1]]
      BY <1>5 DEF HtmlRead
    <3>5. QED BY <3>3, <3>4 DEF ViewTypes
  <2>3. QED BY <1>1, <1>5, <2>1, <2>2 DEF HtmlRead, ViewTypes, ProcessTypes
<1>6. CASE TlsFails(a)
  <2>1. queue' \in [WebviewAuth -> Seq(Event)]
    BY <1>6, PutType DEF TlsFails, Event
  <2>2. loads' \in [WebviewAuth -> Load]
    BY <1>6 DEF TlsFails, ViewTypes, Load
  <2>3. QED BY <1>1, <1>6, <2>1, <2>2 DEF TlsFails, ViewTypes, ProcessTypes
<1>7. CASE CloseRequested(a)
  <2>1. queue' \in [WebviewAuth -> Seq(Event)]
    BY <1>7, PutType DEF CloseRequested, Event
  <2>2. QED BY <1>1, <1>7, <2>1 DEF CloseRequested, ViewTypes, ProcessTypes
<1>8. CASE TimeToRaise(a)
  <2>1. queue' \in [WebviewAuth -> Seq(Event)]
    BY <1>8, PutType DEF TimeToRaise, Event
  <2>2. window' \in [WebviewAuth -> Window]
    <3>1. CASE window' = [window EXCEPT ![a].late = "over"]
      BY <3>1, LateType
    <3>2. CASE window' = [window EXCEPT ![a].token = "over"]
      BY <3>2, TokenType
    <3>3. QED BY <1>8, <3>1, <3>2 DEF TimeToRaise
  <2>3. QED BY <1>1, <1>8, <2>1, <2>2 DEF TimeToRaise, ViewTypes, ProcessTypes
<1>9. CASE AppEnds(a)
  <2>1. ProcessTypes'
    BY <1>9 DEF AppEnds, ProcessTypes
  <2>2. QED BY <1>1, <1>9, <2>1, GoneType DEF AppEnds
<1>10. QED BY <1>2, <1>3, <1>4, <1>5, <1>6, <1>7, <1>8, <1>9

\* authenticate takes them out.
LEMMA TakeType ==
  ASSUME TypeOK, NEW a \in WebviewAuth, Take(a)
  PROVE  TypeOK'
<1> USE DEF TypeOK
<1>1. ASSUME NEW e, Taken(a, e)
      PROVE  /\ queue' \in [WebviewAuth -> Seq(Event)]
             /\ FileTypes' /\ UNCHANGED <<page, loads>>
  BY <1>1, FileUnchanged DEF Taken, Oldest, ViewTypes
<1>2. CASE TakeEnd(a)
  <2>1. ProcessTypes'
    BY <1>2, EndType DEF TakeEnd
  <2>2. QED BY <1>2, <2>1, GoneType, FileUnchanged DEF TakeEnd
<1>3. CASE TakeRaise(a)
  <2>1. window' \in [WebviewAuth -> Window]
    <3>1. PICK x \in {"yes", "failed"} :
            window' = [window EXCEPT ![a].shown = IF @ = "yes" THEN @ ELSE x]
      BY <1>3 DEF TakeRaise
    <3>2. window' = [window EXCEPT ![a].shown = IF window[a].shown = "yes" THEN "yes" ELSE x]
      BY <3>1 DEF ViewTypes, Window
    <3>3. (IF window[a].shown = "yes" THEN "yes" ELSE x) \in {"yes", "no", "failed"}
      OBVIOUS
    <3>4. QED BY <3>2, <3>3, ShownType
  <2>2. QED BY <1>1, <1>3, <2>1 DEF TakeRaise, ViewTypes, ProcessTypes
<1>4. CASE TakeNotFound(a)
  <2>1. window' = [window EXCEPT ![a].token = "set"] \/ window' = window
    BY <1>4 DEF TakeNotFound, ViewTypes, Window
  <2>2. window' \in [WebviewAuth -> Window]
    <3>1. CASE window' = [window EXCEPT ![a].token = "set"]
      BY <3>1, TokenType
    <3>2. QED BY <2>1, <3>1 DEF ViewTypes
  <2>3. QED BY <1>1, <1>4, <2>2 DEF TakeNotFound, ViewTypes, ProcessTypes
<1>5. CASE TakeInvalid(a)
  <2>1. ProcessTypes'
    BY <1>5 DEF TakeInvalid, ProcessTypes
  <2>2. QED BY <1>1, <1>5, <2>1 DEF TakeInvalid, ViewTypes
<1>6. CASE Retried(a)
  <2>1. ProcessTypes'
    BY <1>6 DEF Retried, ProcessTypes
  <2>2. QED BY <1>6, <2>1, ViewUnchanged, FileUnchanged DEF Retried
<1>7. CASE TakeData(a)
  <2>1. CASE Taken(a, "data") /\ pc' = [pc EXCEPT ![a] = "closing"] /\ UNCHANGED <<result, window>>
    <3>1. ProcessTypes'
      BY <2>1 DEF ProcessTypes
    <3>2. QED BY <1>1, <2>1, <3>1 DEF ViewTypes
  <2>2. CASE End(a, "unclosed") /\ Gone(a) /\ UNCHANGED <<fileVars, forward>>
    <3>1. ProcessTypes'
      BY <2>2, EndType
    <3>2. QED BY <2>2, <3>1, GoneType, FileUnchanged
  <2>3. QED BY <1>7, <2>1, <2>2 DEF TakeData
<1>8. CASE ReturnData(a)
  <2>1. ProcessTypes'
    BY <1>8, EndType DEF ReturnData
  <2>2. QED BY <1>8, <2>1, GoneType, FileUnchanged DEF ReturnData
<1>9. QED BY <1>2, <1>3, <1>4, <1>5, <1>6, <1>7, <1>8 DEF Take

LEMMA TypeStep == TypeOK /\ [Next]_vars => TypeOK'
<1> SUFFICES ASSUME TypeOK, [Next]_vars PROVE TypeOK'
  OBVIOUS
<1>1. ASSUME NEW a \in Auth, Kill(a) PROVE TypeOK'
  <2>1. ViewTypes'
    BY <1>1, GoneType, ViewUnchanged DEF TypeOK, Kill
  <2>2. QED BY <1>1, <2>1, FileUnchanged DEF TypeOK, ProcessTypes, Kill
<1>2. CASE UNCHANGED vars
  BY <1>2, ViewUnchanged, FileUnchanged DEF TypeOK, ProcessTypes, vars
<1>3. QED BY <1>1, <1>2, BrowserType, ForwardType, HandlerType, TakeType DEF Next

\* Every variable keeps its type: what is read of a page is always one of the
\* events, and a callback is only ever sent to a login in a browser.
THEOREM TypeCorrect == Spec => []TypeOK
<1>1. QED BY InitType, TypeStep, PTL DEF Spec

-----------------------------------------------------------------------------
(* The port file                                                           *)

\* Logins that wait at the same time have met.
MetInv ==
  \A a, b \in BrowserAuth : a # b /\ Waiting(a) /\ Waiting(b) => a \in met

PortInv == MetInv /\ SoleLoginReachable

\* A step of nobody's browser login leaves the file and those who wait alone.
LEMMA Bystander ==
  ASSUME TypeOK, [Next]_vars, ~ \E a \in BrowserAuth : WritePortFile(a) \/ Parse(a)
  PROVE  /\ UNCHANGED <<portFile, met>>
         /\ \A a \in BrowserAuth : Waiting(a)' => Waiting(a)
<1>1. CASE UNCHANGED vars
  BY <1>1 DEF vars, Waiting
<1>2. ASSUME NEW a \in Auth, Kill(a) PROVE UNCHANGED <<portFile, met>> /\ \A b \in BrowserAuth : Waiting(b)' => Waiting(b)
  BY <1>2 DEF TypeOK, ProcessTypes, Kill, Waiting
<1>3. ASSUME NEW a \in BrowserAuth, OpenBrowser(a) \/ Accept(a)
      PROVE  UNCHANGED <<portFile, met>> /\ \A b \in BrowserAuth : Waiting(b)' => Waiting(b)
  BY <1>3 DEF TypeOK, ProcessTypes, OpenBrowser, Accept, End, Waiting
<1>4. ASSUME NEW f \in Forwarder, ReadPort(f) \/ Connect(f)
      PROVE  UNCHANGED <<portFile, met, pc>>
  BY <1>4 DEF ReadPort, Connect
<1>5. ASSUME NEW a \in WebviewAuth,
             SetUp(a) \/ LoadStarted(a) \/ LoadFinished(a) \/ HtmlRead(a) \/ TlsFails(a)
             \/ CloseRequested(a) \/ AppEnds(a) \/ TimeToRaise(a) \/ Take(a)
      PROVE  UNCHANGED <<portFile, met>> /\ \A b \in BrowserAuth : pc'[b] = pc[b]
  BY <1>5 DEF TypeOK, ProcessTypes, SetUp, LoadStarted, LoadFinished, HtmlRead, TlsFails, CloseRequested,
              AppEnds, TimeToRaise, Take, TakeEnd, TakeData, ReturnData, TakeRaise,
              TakeNotFound, TakeInvalid, Retried, Taken, End
<1>6. QED BY <1>1, <1>2, <1>3, <1>4, <1>5 DEF Next, BrowserStep, Waiting

LEMMA PortStep == TypeOK /\ PortInv /\ [Next]_vars => PortInv'
<1> SUFFICES ASSUME TypeOK, PortInv, [Next]_vars PROVE PortInv'
  OBVIOUS
<1>1. ASSUME NEW a \in BrowserAuth, WritePortFile(a) PROVE PortInv'
  <2>1. CASE UNCHANGED <<portFile, met>> /\ End(a, "failure")
    <3>1. \A b \in BrowserAuth : Waiting(b)' => Waiting(b)
      BY <2>1 DEF TypeOK, ProcessTypes, End, Waiting
    <3>2. QED BY <2>1, <3>1 DEF PortInv, MetInv, SoleLoginReachable
  <2>2. CASE ~UNCHANGED <<portFile, met>> \/ ~End(a, "failure")
    <3>1. \A b \in BrowserAuth : Waiting(b)' => b = a \/ Waiting(b)
      BY <1>1 DEF TypeOK, ProcessTypes, WritePortFile, End, Waiting
    <3>2. \A b \in BrowserAuth : Waiting(b) => b \in met' /\ a \in met'
      BY <1>1, <2>2 DEF WritePortFile
    <3>3. met \subseteq met' /\ portFile' = a
      BY <1>1, <2>2 DEF WritePortFile, Overwritten
    <3>4. QED BY <3>1, <3>2, <3>3 DEF PortInv, MetInv, SoleLoginReachable
  <2>3. QED BY <2>1, <2>2
<1>2. ASSUME NEW a \in BrowserAuth, Parse(a) PROVE PortInv'
  <2>1. Waiting(a) /\ \A b \in BrowserAuth : Waiting(b)' => b # a /\ Waiting(b)
    BY <1>2 DEF TypeOK, ProcessTypes, Parse, End, Waiting
  <2>2. met' = met /\ \A b \in BrowserAuth : Waiting(b)' => b \in met'
    BY <1>2, <2>1 DEF Parse, PortInv, MetInv
  <2>3. QED BY <2>1, <2>2 DEF PortInv, MetInv, SoleLoginReachable
<1>3. CASE ~ \E a \in BrowserAuth : WritePortFile(a) \/ Parse(a)
  BY <1>3, Bystander DEF PortInv, MetInv, SoleLoginReachable
<1>4. QED BY <1>1, <1>2, <1>3

\* A login that is alone in waiting owns the port file, whatever earlier ones,
\* killed ones and stray forwarders did.
THEOREM Reachable == Spec => []SoleLoginReachable
<1>1. Init => PortInv
  BY DEF Init, PortInv, MetInv, SoleLoginReachable, Waiting
<1>2. PortInv => SoleLoginReachable
  BY DEF PortInv
<1>3. QED BY <1>1, <1>2, TypeCorrect, PortStep, PTL DEF Spec
-----------------------------------------------------------------------------
(* What AnswerCounts and WindowIsShown rest on                             *)

\* A login in a browser that got its data, and waited beside no other, does not
\* fail.
AloneSucceeds ==
  \A a \in BrowserAuth :
    pc[a] = "ended" /\ inbox[a] = "data" /\ a \notin met => result[a] = "success"

\* Nothing is received before the login listens.
InboxInv ==
  \A a \in BrowserAuth : pc[a] \in {"start", "opened"} => inbox[a] = "none"

LEMMA InboxStep ==
  TypeOK /\ PortInv /\ InboxInv /\ AloneSucceeds /\ [Next]_vars => InboxInv' /\ AloneSucceeds'
<1> SUFFICES ASSUME TypeOK, PortInv, InboxInv, AloneSucceeds, [Next]_vars
             PROVE  InboxInv' /\ AloneSucceeds'
  OBVIOUS
<1> USE DEF TypeOK, ProcessTypes, FileTypes, InboxInv, AloneSucceeds
<1>1. ASSUME NEW a \in BrowserAuth, OpenBrowser(a) PROVE InboxInv' /\ AloneSucceeds'
  BY <1>1 DEF OpenBrowser, End, fileVars
<1>2. ASSUME NEW a \in BrowserAuth, WritePortFile(a) PROVE InboxInv' /\ AloneSucceeds'
  <2>1. met \subseteq met' /\ inbox' = inbox /\ inbox[a] = "none"
    BY <1>2 DEF WritePortFile
  <2>2. \A b \in BrowserAuth \ {a} : pc'[b] = pc[b] /\ result'[b] = result[b]
    BY <1>2 DEF WritePortFile, End, Auth
  <2>3. pc'[a] \in {"waiting", "ended"}
    BY <1>2 DEF WritePortFile, End, Auth
  <2>4. QED BY <2>1, <2>2, <2>3
<1>3. ASSUME NEW a \in BrowserAuth, Accept(a) PROVE InboxInv' /\ AloneSucceeds'
  BY <1>3 DEF Accept, fileVars
<1>4. ASSUME NEW a \in BrowserAuth, Parse(a) PROVE InboxInv' /\ AloneSucceeds'
  <2>1. a \notin met => portFile # NoAuth
    BY <1>4, GpauthAssumption DEF Parse, PortInv, SoleLoginReachable, Waiting, GpauthAssumption, Auth
  <2>2. /\ inbox' = inbox /\ met' = met
        /\ \A b \in BrowserAuth \ {a} : pc'[b] = pc[b] /\ result'[b] = result[b]
        /\ pc'[a] = "ended"
        /\ portFile # NoAuth /\ inbox[a] = "data" => result'[a] = "success"
    BY <1>4 DEF Parse, End, Auth
  <2>3. QED BY <2>1, <2>2
<1>5. ASSUME NEW f \in Forwarder, ReadPort(f) \/ Connect(f)
      PROVE  InboxInv' /\ AloneSucceeds'
  <2>1. pc' = pc /\ result' = result /\ met' = met
    BY <1>5 DEF ReadPort, Connect, fileVars
  <2>2. \A a \in BrowserAuth : inbox'[a] = inbox[a] \/ pc[a] = "waiting"
    BY <1>5 DEF ReadPort, Connect, fileVars
  <2>3. QED BY <2>1, <2>2
<1>6. ASSUME NEW a \in Auth, Kill(a) PROVE InboxInv' /\ AloneSucceeds'
  BY <1>6 DEF Kill, Ended, fileVars
<1>7. ASSUME NEW a \in WebviewAuth,
             SetUp(a) \/ LoadStarted(a) \/ LoadFinished(a) \/ HtmlRead(a) \/ TlsFails(a)
             \/ CloseRequested(a) \/ AppEnds(a) \/ TimeToRaise(a) \/ Take(a)
      PROVE  InboxInv' /\ AloneSucceeds'
  <2>1. \A b \in BrowserAuth : b # a
    BY GpauthAssumption DEF GpauthAssumption
  <2>2. UNCHANGED <<inbox, met>>
    BY <1>7
    DEF SetUp, LoadStarted, LoadFinished, HtmlRead, TlsFails, CloseRequested, AppEnds,
        TimeToRaise, Take, TakeEnd, TakeData, ReturnData, TakeRaise, TakeNotFound, TakeInvalid, Retried, Taken, fileVars, viewRest
  <2>3. \A b \in BrowserAuth : pc'[b] = pc[b] /\ result'[b] = result[b]
    BY <1>7, <2>1
    DEF SetUp, LoadStarted, LoadFinished, HtmlRead, TlsFails, CloseRequested, AppEnds,
        TimeToRaise, Take, TakeEnd, TakeData, ReturnData, TakeRaise, TakeNotFound, TakeInvalid, Retried, Taken, End, Auth, viewRest
  <2>4. QED BY <2>2, <2>3
<1>8. CASE UNCHANGED vars
  BY <1>8 DEF vars, fileVars
<1>9. QED
  BY <1>1, <1>2, <1>3, <1>4, <1>5, <1>6, <1>7, <1>8 DEF Next, BrowserStep

\* Whatever forwarders, earlier logins and crashes left behind, the data that a
\* login alone receives lets it succeed: the port file is there when it looks.
THEOREM DataLetsItSucceed == Spec => []AloneSucceeds
<1>1. Init => PortInv /\ InboxInv /\ AloneSucceeds
  BY DEF Init, PortInv, MetInv, SoleLoginReachable, Waiting, InboxInv, AloneSucceeds
<1>2. QED BY <1>1, TypeCorrect, PortStep, InboxStep, PTL DEF Spec

\* A web view that is in use was asked to be shown, or will be: its timer is set
\* or has put the raise into the queue.
RaiseDue ==
  \A a \in WebviewAuth : InView(a) =>
    \/ window[a].shown # "no" \/ window[a].late = "set"
    \/ \E i \in DOMAIN queue[a] : queue[a][i] = "raise"

\* An answer that was taken is on its way to be returned.
InHand(a) == pc[a] = "closing"

\* An answer in the queue of a web view stays there, behind nothing that ends
\* the login, until it is taken; taken, it is returned.  It is given up only
\* when its own window cannot be closed or the process is at an end.
AnswerStays ==
  [][\A a \in WebviewAuth :
       /\ InView(a) /\ DataAhead(a) =>
            (InView(a)' /\ DataAhead(a)') \/ InHand(a)' \/ Answered(a)'
       /\ InHand(a) => InHand(a)' \/ Answered(a)']_vars

\* The timer of ten seconds is not over before the window is set up.
TimerSet == \A a \in WebviewAuth : pc[a] = "start" => window[a].late = "set"

\* The events of q, and what came after them.
Longer(q, r) == DOMAIN q \subseteq DOMAIN r /\ \A i \in DOMAIN q : r[i] = q[i]

LEMMA AppendLonger ==
  ASSUME NEW q \in Seq(Event), NEW e \in Event
  PROVE  /\ Longer(q, Append(q, e))
         /\ \E i \in DOMAIN Append(q, e) : Append(q, e)[i] = e
<1>1. /\ DOMAIN q = 1 .. Len(q) /\ Len(q) \in Nat
      /\ DOMAIN Append(q, e) = 1 .. Len(q) + 1 /\ Append(q, e)[Len(q) + 1] = e
      /\ \A i \in 1 .. Len(q) : Append(q, e)[i] = q[i]
  OBVIOUS
<1>2. Len(q) + 1 \in DOMAIN Append(q, e)
  BY <1>1
<1>3. QED BY <1>1, <1>2 DEF Longer

\* What the handlers and timers of a web view do to its queue and its window.
LEMMA HandlerMoves ==
  ASSUME TypeOK, NEW a \in WebviewAuth,
         \/ LoadStarted(a) \/ LoadFinished(a) \/ HtmlRead(a) \/ TlsFails(a)
         \/ CloseRequested(a) \/ TimeToRaise(a)
  PROVE  /\ pc' = pc /\ Longer(queue[a], queue'[a])
         /\ \A b \in WebviewAuth \ {a} : queue'[b] = queue[b] /\ window'[b] = window[b]
         /\ window'[a].shown = window[a].shown
         /\ \/ window'[a].late = window[a].late
            \/ InView(a) /\ \E i \in DOMAIN queue'[a] : queue'[a][i] = "raise"
<1> USE DEF TypeOK, ViewTypes, viewRest
<1>1. queue[a] \in Seq(Event) /\ window[a] \in Window
  OBVIOUS
<1>2. ASSUME NEW e \in Event, Put(a, e)
      PROVE  /\ Longer(queue[a], queue'[a])
             /\ \A b \in WebviewAuth \ {a} : queue'[b] = queue[b]
             /\ \E i \in DOMAIN queue'[a] : queue'[a][i] = e
  BY <1>1, <1>2, AppendLonger DEF Put
<1>3. CASE LoadStarted(a)
  BY <1>1, <1>3 DEF LoadStarted, Longer, Window
<1>4. CASE LoadFinished(a)
  <2>0. PICK r \in {ReadFromResponse(page[a].headers), <<"invalid">>} :
          queue' = [queue EXCEPT ![a] = @ \o r]
    BY <1>4 DEF LoadFinished
  <2>1. r \in Seq(Event)
    <3>1. <<"invalid">> \in Seq(Event)
      BY DEF Event
    <3>2. ReadFromResponse(page[a].headers) \in Seq(Event)
      BY HeadersType
    <3>3. QED BY <2>0, <3>1, <3>2
  <2>2. Longer(queue[a], queue[a] \o r)
    BY <1>1, <2>1 DEF Longer
  <2>3. queue' = [queue EXCEPT ![a] = @ \o r]
    BY <1>4, <2>0
  <2>4. QED BY <1>4, <2>2, <2>3 DEF LoadFinished
<1>5. CASE HtmlRead(a)
  BY <1>2, <1>5, PageType DEF HtmlRead
<1>6. CASE TlsFails(a)
  BY <1>2, <1>6 DEF TlsFails, Event
<1>7. CASE CloseRequested(a)
  BY <1>2, <1>7 DEF CloseRequested, Event
<1>8. CASE TimeToRaise(a)
  <2>1. "raise" \in Event
    BY DEF Event
  <2>2. window'[a].shown = window[a].shown /\ \A b \in WebviewAuth \ {a} : window'[b] = window[b]
    BY <1>1, <1>8 DEF TimeToRaise, Window
  <2>3. QED BY <1>2, <1>8, <2>1, <2>2 DEF TimeToRaise
<1>9. QED BY <1>3, <1>4, <1>5, <1>6, <1>7, <1>8

\* The other steps leave the queue and the window of a web view alone.
LEMMA ViewAlone ==
  ASSUME TypeOK,
         \/ UNCHANGED vars \/ (\E a \in Auth : Kill(a))
         \/ (\E a \in BrowserAuth : BrowserStep(a))
         \/ \E f \in Forwarder : ReadPort(f) \/ Connect(f)
  PROVE  \A a \in WebviewAuth :
           \/ /\ pc'[a] = pc[a] /\ result'[a] = result[a]
              /\ queue'[a] = queue[a] /\ window'[a] = window[a]
           \/ pc'[a] = "killed"
<1> USE DEF TypeOK, ProcessTypes, viewVars, fileVars
<1>1. CASE UNCHANGED vars
  BY <1>1 DEF vars
<1>2. ASSUME NEW a \in Auth, Kill(a), NEW b \in WebviewAuth, b # a
      PROVE  /\ pc'[b] = pc[b] /\ result'[b] = result[b]
             /\ queue'[b] = queue[b] /\ window'[b] = window[b]
  BY <1>2 DEF Kill, Gone, ViewTypes, Auth
<1>20. ASSUME NEW a \in Auth, Kill(a) PROVE pc'[a] = "killed"
  BY <1>20 DEF Kill, Auth
<1>3. ASSUME NEW a \in BrowserAuth, BrowserStep(a)
      PROVE  /\ queue' = queue /\ window' = window
             /\ \A b \in WebviewAuth : pc'[b] = pc[b] /\ result'[b] = result[b]
  BY <1>3, GpauthAssumption
  DEF BrowserStep, OpenBrowser, WritePortFile, Accept, Parse, End, Auth, GpauthAssumption
<1>4. ASSUME NEW f \in Forwarder, ReadPort(f) \/ Connect(f)
      PROVE  queue' = queue /\ window' = window /\ pc' = pc /\ result' = result
  BY <1>4 DEF ReadPort, Connect
<1>5. QED BY <1>1, <1>2, <1>20, <1>3, <1>4

\* A web view is set up, and takes its events, for itself.
LEMMA TakeAlone ==
  ASSUME TypeOK, NEW a \in WebviewAuth, SetUp(a) \/ AppEnds(a) \/ Take(a)
  PROVE  \A b \in WebviewAuth \ {a} :
           /\ pc'[b] = pc[b] /\ result'[b] = result[b]
           /\ queue'[b] = queue[b] /\ window'[b] = window[b]
  BY DEF TypeOK, ProcessTypes, ViewTypes, SetUp, AppEnds, Take, TakeEnd, TakeData, ReturnData,
         TakeRaise, TakeNotFound, TakeInvalid, Retried, Taken, End, Gone, Auth, viewRest, viewVars

\* Who looks at the oldest event.
LEMMA TakenFacts ==
  ASSUME TypeOK, NEW a \in WebviewAuth, NEW e, Taken(a, e)
  PROVE  /\ pc[a] = "loop" /\ queue[a] \in Seq(Event) /\ 1 \in DOMAIN queue[a]
         /\ queue[a][1] = e /\ queue'[a] = Tail(queue[a])
         /\ \A i \in DOMAIN queue[a] : i # 1 =>
              i - 1 \in DOMAIN queue'[a] /\ queue'[a][i - 1] = queue[a][i]
         /\ \A i \in DOMAIN queue'[a] :
              i + 1 \in DOMAIN queue[a] /\ queue'[a][i] = queue[a][i + 1]
<1>1. /\ pc[a] = "loop" /\ queue[a] \in Seq(Event) /\ queue[a] # <<>>
      /\ Head(queue[a]) = e /\ queue'[a] = Tail(queue[a])
  BY DEF TypeOK, ViewTypes, Taken, Oldest
<1>2. /\ Len(queue[a]) \in Nat \ {0} /\ DOMAIN queue[a] = 1 .. Len(queue[a])
      /\ Head(queue[a]) = queue[a][1] /\ DOMAIN Tail(queue[a]) = 1 .. Len(queue[a]) - 1
      /\ \A i \in 1 .. Len(queue[a]) - 1 : Tail(queue[a])[i] = queue[a][i + 1]
  BY <1>1, HeadTailProperties, EmptySeq
<1>3. ASSUME NEW i \in DOMAIN queue[a], i # 1
      PROVE  i - 1 \in DOMAIN queue'[a] /\ queue'[a][i - 1] = queue[a][i]
  <2>1. i - 1 \in 1 .. Len(queue[a]) - 1 /\ (i - 1) + 1 = i
    BY <1>2, <1>3
  <2>2. Tail(queue[a])[i - 1] = queue[a][(i - 1) + 1]
    BY <1>2, <2>1
  <2>3. QED BY <1>1, <1>2, <2>1, <2>2
<1>4. QED BY <1>1, <1>2, <1>3

LEMMA RaiseStep == TypeOK /\ TimerSet /\ RaiseDue /\ [Next]_vars => TimerSet' /\ RaiseDue'
<1> SUFFICES ASSUME TypeOK, TimerSet, RaiseDue, [Next]_vars PROVE TimerSet' /\ RaiseDue'
  OBVIOUS
<1> USE DEF TimerSet, RaiseDue, InView
<1>1. ASSUME NEW a \in WebviewAuth,
             \/ LoadStarted(a) \/ LoadFinished(a) \/ HtmlRead(a) \/ TlsFails(a)
             \/ CloseRequested(a) \/ TimeToRaise(a)
      PROVE  TimerSet' /\ RaiseDue'
  BY <1>1, HandlerMoves DEF Longer
<1>2. CASE \/ UNCHANGED vars \/ (\E a \in Auth : Kill(a))
           \/ (\E a \in BrowserAuth : BrowserStep(a))
           \/ \E f \in Forwarder : ReadPort(f) \/ Connect(f)
  BY <1>2, ViewAlone
<1>3. ASSUME NEW a \in WebviewAuth, SetUp(a) PROVE TimerSet' /\ RaiseDue'
  <2>1. pc[a] = "start"
    BY <1>3 DEF SetUp
  <2>2. CASE pc'[a] = "ended"
    BY <1>3, <2>2, TakeAlone
  <2>3. CASE pc'[a] = "loop" /\ \E clean \in {"yes", "no"} : window' = [window EXCEPT ![a].shown = clean]
    <3>1. window'[a].late = window[a].late
      BY <2>3 DEF TypeOK, ViewTypes, Window
    <3>2. QED BY <1>3, <2>1, <2>3, <3>1, TakeAlone
  <2>4. CASE End(a, "failure")
    <3>1. pc'[a] = "ended"
      BY <2>4 DEF End, TypeOK, ProcessTypes, Auth
    <3>2. QED BY <2>2, <3>1
  <2>5. CASE /\ pc' = [pc EXCEPT ![a] = "loop"]
             /\ \E clean \in {"yes", "no"} : window' = [window EXCEPT ![a].shown = clean]
    <3>1. pc'[a] = "loop"
      BY <2>5 DEF TypeOK, ProcessTypes, Auth
    <3>2. QED BY <2>3, <2>5, <3>1
  <2>6. QED BY <1>3, <2>4, <2>5 DEF SetUp
<1>30. ASSUME NEW a \in WebviewAuth, AppEnds(a) PROVE TimerSet' /\ RaiseDue'
  <2>1. pc'[a] = "quit"
    BY <1>30 DEF AppEnds, TypeOK, ProcessTypes, Auth
  <2>2. QED BY <1>30, <2>1, TakeAlone
<1>4. ASSUME NEW a \in WebviewAuth, Take(a) PROVE TimerSet' /\ RaiseDue'
  <2>2. CASE pc'[a] \in {"ended", "closing"}
    BY <1>4, <2>2, TakeAlone
  <2>20. CASE TakeEnd(a) \/ TakeData(a) \/ ReturnData(a)
    <3>1. pc'[a] \in {"ended", "closing"}
      BY <2>20 DEF TakeEnd, TakeData, ReturnData, End, TypeOK, ProcessTypes, Auth
    <3>2. QED BY <2>2, <3>1
  <2>3. CASE TakeRaise(a)
    <3>1. window'[a].shown # "no" /\ pc'[a] # "start"
      BY <2>3 DEF TakeRaise, Taken, Oldest, TypeOK, ViewTypes, Window
    <3>2. QED BY <1>4, <3>1, TakeAlone
  <2>4. ASSUME NEW e, Taken(a, e), e # "raise", window'[a].late = window[a].late,
               window'[a].shown = window[a].shown
        PROVE  TimerSet' /\ RaiseDue'
    <3>1. (\E i \in DOMAIN queue[a] : queue[a][i] = "raise")
            => \E i \in DOMAIN queue'[a] : queue'[a][i] = "raise"
      BY <2>4, TakenFacts
    <3>2. pc[a] = "loop" /\ pc'[a] \in {"loop", "retry", "ended", "closing"}
      BY <1>4, <2>4
      DEF Take, TakeEnd, TakeData, ReturnData, TakeRaise, TakeNotFound, TakeInvalid, Retried, Taken,
          Oldest, End, TypeOK, ProcessTypes, Auth
    <3>3. QED BY <1>4, <2>4, <3>1, <3>2, TakeAlone
  <2>5. CASE TakeNotFound(a)
    <3>1. window'[a].late = window[a].late /\ window'[a].shown = window[a].shown
      BY <2>5 DEF TakeNotFound, TypeOK, ViewTypes, Window
    <3>2. QED BY <2>4, <2>5, <3>1 DEF TakeNotFound
  <2>6. CASE TakeInvalid(a)
    BY <2>4, <2>6 DEF TakeInvalid
  <2>7. CASE Retried(a)
    <3>1. queue' = queue /\ window' = window /\ pc[a] = "retry" /\ pc'[a] = "loop"
      BY <2>7 DEF Retried, viewVars, TypeOK, ProcessTypes, Auth
    <3>2. QED BY <1>4, <3>1, TakeAlone
  <2>8. QED BY <1>4, <2>20, <2>3, <2>5, <2>6, <2>7 DEF Take
<1>5. QED BY <1>1, <1>2, <1>3, <1>30, <1>4 DEF Next

\* No web view stays hidden for want of a timer, whatever pages it loads and
\* whatever retries are under way: what WindowIsShown rests on.
THEOREM RaiseIsOnItsWay == Spec => []RaiseDue
<1>1. Init => TimerSet /\ RaiseDue
  BY DEF Init, TimerSet, RaiseDue, InView, NoWindow
<1>2. QED BY <1>1, TypeCorrect, RaiseStep, PTL DEF Spec

\* A step that leaves the process and what is in its queue.
LEMMA StaysAhead ==
  ASSUME TypeOK, NEW a \in WebviewAuth, InView(a), DataAhead(a),
         pc'[a] = pc[a], Longer(queue[a], queue'[a])
  PROVE  InView(a)' /\ DataAhead(a)'
<1>1. PICK n \in DOMAIN queue[a] :
        /\ queue[a][n] = "data"
        /\ \A j \in 1 .. n - 1 : queue[a][j] \notin {"close", "tls"}
  BY DEF DataAhead
<1>2. queue[a] \in Seq(Event) /\ n \in 1 .. Len(queue[a]) /\ DOMAIN queue[a] = 1 .. Len(queue[a])
  BY <1>1 DEF TypeOK, ViewTypes
<1>3. \A j \in 1 .. n - 1 : j \in DOMAIN queue[a]
  BY <1>2
<1>4. n \in DOMAIN queue'[a] /\ queue'[a][n] = "data"
  BY <1>1 DEF Longer
<1>5. \A j \in 1 .. n - 1 : queue'[a][j] \notin {"close", "tls"}
  BY <1>1, <1>3 DEF Longer
<1>6. QED BY <1>4, <1>5 DEF InView, DataAhead

\* An event that is taken before the answer does not end the login.
LEMMA TakenBefore ==
  ASSUME TypeOK, NEW a \in WebviewAuth, DataAhead(a), NEW e, Oldest(a, e), e # "data"
  PROVE  /\ e \notin {"close", "tls"}
         /\ Taken(a, e) => DataAhead(a)'
<1>1. PICK n \in DOMAIN queue[a] :
        /\ queue[a][n] = "data"
        /\ \A j \in 1 .. n - 1 : queue[a][j] \notin {"close", "tls"}
  BY DEF DataAhead
<1>2. queue[a] \in Seq(Event) /\ n \in 1 .. Len(queue[a]) /\ DOMAIN queue[a] = 1 .. Len(queue[a])
  BY <1>1 DEF TypeOK, ViewTypes
<1>3. queue[a][1] = e
  BY <1>2 DEF Oldest
<1>4. n # 1 /\ 1 \in 1 .. n - 1
  BY <1>1, <1>2, <1>3
<1>5. ASSUME Taken(a, e) PROVE DataAhead(a)'
  <2>1. n - 1 \in DOMAIN queue'[a] /\ queue'[a][n - 1] = "data"
    BY <1>1, <1>4, <1>5, TakenFacts
  <2>2. ASSUME NEW j \in 1 .. (n - 1) - 1 PROVE queue'[a][j] \notin {"close", "tls"}
    <3>1. j + 1 \in DOMAIN queue[a] /\ j + 1 # 1 /\ (j + 1) - 1 = j /\ j + 1 \in 1 .. n - 1
      BY <1>2
    <3>2. queue'[a][(j + 1) - 1] = queue[a][j + 1]
      BY <1>5, <3>1, TakenFacts
    <3>3. QED BY <1>1, <3>1, <3>2
  <2>3. QED BY <2>1, <2>2 DEF DataAhead
<1>6. QED BY <1>1, <1>3, <1>4, <1>5

\* What a step makes of an answer that is in the queue.
LEMMA AheadStep ==
  ASSUME TypeOK, [Next]_vars, NEW a \in WebviewAuth, InView(a), DataAhead(a)
  PROVE  (InView(a)' /\ DataAhead(a)') \/ InHand(a)' \/ Answered(a)'
<1>1. CASE \/ UNCHANGED vars \/ (\E b \in Auth : Kill(b))
           \/ (\E b \in BrowserAuth : BrowserStep(b))
           \/ \E f \in Forwarder : ReadPort(f) \/ Connect(f)
  <2>1. CASE pc'[a] = "killed"
    BY <2>1 DEF Answered
  <2>2. CASE pc'[a] = pc[a] /\ queue'[a] = queue[a]
    BY <2>2, StaysAhead DEF Longer
  <2>3. QED BY <1>1, <2>1, <2>2, ViewAlone
<1>2. ASSUME NEW b \in WebviewAuth,
             \/ LoadStarted(b) \/ LoadFinished(b) \/ HtmlRead(b) \/ TlsFails(b)
             \/ CloseRequested(b) \/ TimeToRaise(b)
      PROVE  InView(a)' /\ DataAhead(a)'
  <2>1. pc'[a] = pc[a] /\ Longer(queue[a], queue'[a])
    BY <1>2, HandlerMoves DEF Longer
  <2>2. QED BY <2>1, StaysAhead
<1>3. ASSUME NEW b \in WebviewAuth, b # a, SetUp(b) \/ AppEnds(b) \/ Take(b)
      PROVE  InView(a)' /\ DataAhead(a)'
  <2>1. pc'[a] = pc[a] /\ Longer(queue[a], queue'[a])
    BY <1>3, TakeAlone DEF Longer
  <2>2. QED BY <2>1, StaysAhead
<1>4. CASE SetUp(a)
  BY <1>4 DEF SetUp, InView
<1>5. CASE AppEnds(a)
  BY <1>5 DEF AppEnds, Answered, TypeOK, ProcessTypes, Auth
<1>6. CASE TakeEnd(a)
  BY <1>6, TakenBefore DEF TakeEnd
<1>7. CASE TakeData(a)
  BY <1>7 DEF TakeData, End, InHand, Answered, TypeOK, ProcessTypes, Auth
<1>8. CASE ReturnData(a)
  BY <1>8 DEF ReturnData, InView
<1>9. CASE TakeRaise(a) \/ TakeNotFound(a) \/ TakeInvalid(a)
  <2>1. PICK e \in {"raise", "notFound", "invalid"} : Taken(a, e)
    BY <1>9 DEF TakeRaise, TakeNotFound, TakeInvalid
  <2>2. DataAhead(a)'
    BY <2>1, TakenBefore DEF Taken
  <2>3. pc'[a] \in {"loop", "retry"}
    BY <1>9 DEF TakeRaise, TakeNotFound, TakeInvalid, Taken, Oldest, TypeOK, ProcessTypes, Auth
  <2>4. QED BY <2>2, <2>3 DEF InView
<1>10. CASE Retried(a)
  BY <1>10 DEF Retried, InView, DataAhead, viewVars, TypeOK, ProcessTypes, Auth
<1>11. QED
  BY <1>1, <1>2, <1>3, <1>4, <1>5, <1>6, <1>7, <1>8, <1>9, <1>10 DEF Next, Take

\* What a step makes of an answer that was taken.
LEMMA HandStep ==
  ASSUME TypeOK, [Next]_vars, NEW a \in WebviewAuth, InHand(a)
  PROVE  InHand(a)' \/ Answered(a)'
<1>1. CASE \/ UNCHANGED vars \/ (\E b \in Auth : Kill(b))
           \/ (\E b \in BrowserAuth : BrowserStep(b))
           \/ \E f \in Forwarder : ReadPort(f) \/ Connect(f)
  BY <1>1, ViewAlone DEF InHand, Answered
<1>2. ASSUME NEW b \in WebviewAuth,
             \/ LoadStarted(b) \/ LoadFinished(b) \/ HtmlRead(b) \/ TlsFails(b)
             \/ CloseRequested(b) \/ TimeToRaise(b)
      PROVE  InHand(a)'
  BY <1>2, HandlerMoves DEF InHand
<1>3. ASSUME NEW b \in WebviewAuth, b # a, SetUp(b) \/ AppEnds(b) \/ Take(b)
      PROVE  InHand(a)'
  BY <1>3, TakeAlone DEF InHand
<1>4. CASE AppEnds(a)
  BY <1>4 DEF AppEnds, Answered, TypeOK, ProcessTypes, Auth
<1>5. CASE SetUp(a) \/ Take(a)
  <2>1. ReturnData(a)
    BY <1>5
    DEF SetUp, Take, TakeEnd, TakeData, TakeRaise, TakeNotFound, TakeInvalid, Retried, Taken,
        Oldest, InHand
  <2>2. QED BY <2>1 DEF ReturnData, End, Answered, TypeOK, ProcessTypes, Auth
<1>6. QED BY <1>1, <1>2, <1>3, <1>4, <1>5 DEF Next

\* An answer is not lost to later events, pages and retries: what AnswerCounts
\* rests on for the web view.
THEOREM AnswerIsKept == Spec => AnswerStays
<1>1. TypeOK /\ [Next]_vars =>
        [\A a \in WebviewAuth :
           /\ InView(a) /\ DataAhead(a) =>
                (InView(a)' /\ DataAhead(a)') \/ InHand(a)' \/ Answered(a)'
           /\ InHand(a) => InHand(a)' \/ Answered(a)']_vars
  BY AheadStep, HandStep
<1>2. QED BY <1>1, TypeCorrect, PTL DEF Spec, AnswerStays

=============================================================================
