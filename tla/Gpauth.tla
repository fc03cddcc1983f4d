-------------------------------- MODULE Gpauth --------------------------------
(***************************************************************************)
(* gpauth processes, in a browser or in a web view.                        *)
(*                                                                         *)
(* In a browser: BrowserAuthenticator serves the login page once and waits *)
(* on a port whose number it leaves in a file that all of them share; the  *)
(* browser's callback is forwarded there by `gpclient launch-gui`          *)
(* (feed_auth_data_cli) or by the app (AuthCallbackForwarder).             *)
(*                                                                         *)
(* In a web view: the window's handlers and timers put events into the     *)
(* queue of AuthMessenger, and WebviewAuthenticator::authenticate takes    *)
(* them out one by one, retrying a failed login before it takes the next.  *)
(***************************************************************************)
EXTENDS AuthData, Sequences, SequencesExt

CONSTANTS
  BrowserAuth, WebviewAuth,  \* processes, one login each
  Forwarder,                 \* processes that forward one callback each
  NoAuth,                    \* no port file
  Pages,                     \* what the web view may show
  MaxLoads                   \* bound: pages of one web view

Auth == BrowserAuth \cup WebviewAuth

ASSUME GpauthAssumption ==
  /\ BrowserAuth \cap WebviewAuth = {} /\ NoAuth \notin Auth
  /\ Pages \subseteq Page /\ MaxLoads \in Nat

VARIABLES
  pc,        \* [Auth -> where its authenticate is]
  result,    \* [Auth -> what print_auth_result printed]
  portFile,  \* the process whose port GP_CALLBACK_PORT_FILENAME holds
  inbox,     \* [BrowserAuth -> the text of the first connection]
  met,       \* history: those that waited while another one wrote the file
  forward,   \* [Forwarder -> where it is, and the port it read]
  page,      \* [WebviewAuth -> the page shown, once there is one]
  loads,     \* [WebviewAuth -> pages begun, whether this one is finished,
             \*  and the calls of get_html under way]
  queue,     \* [WebviewAuth -> the events not yet taken]
  window     \* [WebviewAuth -> whether it is shown, the timer of ten seconds,
             \*  and the state of raise_window_cancel_token]

fileVars == <<portFile, inbox, met>>
viewVars == <<page, loads, queue, window>>
vars == <<pc, result, fileVars, forward, viewVars>>

NoPage == [unavailable |-> FALSE, callbacks |-> {},
           text |-> [status |-> "none", user |-> "", prelogin |-> 0, portal |-> 0],
           headers |-> [status |-> "none", user |-> "", prelogin |-> 0, portal |-> 0]]

NoLoads == [begun |-> 0, state |-> "finished", reads |-> 0]
NoWindow == [shown |-> "no", late |-> "set", token |-> "none"]

\* The two kinds share nothing: it is enough to see each among its own.
Init ==
  /\ \E some \in {BrowserAuth, WebviewAuth} :
       pc = [a \in Auth |-> IF a \in some THEN "start" ELSE "ended"]
  /\ result = [a \in Auth |-> "none"]
  /\ portFile = NoAuth
  /\ inbox = [a \in BrowserAuth |-> "none"]
  /\ met = {}
  /\ forward = [f \in Forwarder |-> [pc |-> "idle", port |-> NoAuth]]
  /\ page = [a \in WebviewAuth |-> NoPage]
  /\ loads = [a \in WebviewAuth |-> NoLoads]
  /\ queue = [a \in WebviewAuth |-> <<>>]
  /\ window = [a \in WebviewAuth |-> NoWindow]

Ended(a) == pc[a] \in {"ended", "killed", "quit"}

\* authenticate returns, and its result is printed.
End(a, r) ==
  /\ pc' = [pc EXCEPT ![a] = "ended"]
  /\ result' = [result EXCEPT ![a] = r]

\* The window goes with the process, and so do the queue and the timers.
Gone(a) ==
  /\ page' = [page EXCEPT ![a] = NoPage]
  /\ loads' = [loads EXCEPT ![a] = NoLoads]
  /\ queue' = [queue EXCEPT ![a] = <<>>]
  /\ window' = [window EXCEPT ![a] = NoWindow]

Kill(a) ==
  /\ ~Ended(a) /\ pc' = [pc EXCEPT ![a] = "killed"]
  /\ IF a \in WebviewAuth THEN Gone(a) ELSE UNCHANGED viewVars
  /\ UNCHANGED <<result, fileVars, forward>>

-----------------------------------------------------------------------------
(* In a browser                                                            *)

Waiting(a) == pc[a] \in {"waiting", "read"}

\* The page is served and the browser opened, or not: `?`.  With a remote
\* browser the data is pasted into the terminal instead.
OpenBrowser(a) ==
  /\ pc[a] = "start"
  /\ \/ pc' = [pc EXCEPT ![a] = "opened"] /\ UNCHANGED result
     \/ \E r \in {"success", "failure"} : End(a, r)
  /\ UNCHANGED <<fileVars, forward, viewVars>>

\* Faulty variant: a file that is there is left alone.
Written(a) == IF portFile = NoAuth THEN a ELSE portFile

Overwritten(a) == a

\* wait_auth_data binds a port and writes it over what the file holds.  Either
\* may fail, and so may what follows the writing: the file is left then.
WritePortFile(a) ==
  /\ pc[a] = "opened"
  /\ \/ End(a, "failure") /\ UNCHANGED <<portFile, met>>
     \/ /\ \/ pc' = [pc EXCEPT ![a] = "waiting"] /\ UNCHANGED result
           \/ End(a, "failure")
        /\ portFile' = Overwritten(a)
        /\ met' = LET others == {b \in BrowserAuth : Waiting(b)}
                  IN  IF others = {} THEN met ELSE met \cup others \cup {a}
  /\ UNCHANGED <<inbox, forward, viewVars>>

\* The first connection is read to its end; there is no second one.
Accept(a) ==
  /\ pc[a] = "waiting" /\ inbox[a] # "none"
  /\ pc' = [pc EXCEPT ![a] = "read"]
  /\ UNCHANGED <<result, fileVars, forward, viewVars>>

\* A connection that breaks off ends the login before the port file is
\* removed.  Otherwise it is, whoever wrote it; without one the login fails,
\* whatever the data is.
Parse(a) ==
  /\ pc[a] = "read"
  /\ End(a, IF portFile # NoAuth /\ inbox[a] = "data" THEN "success" ELSE "failure")
  /\ portFile' = IF inbox[a] = "broken" THEN portFile ELSE NoAuth
  /\ UNCHANGED <<inbox, met, forward, viewVars>>

-----------------------------------------------------------------------------
(* The callback                                                            *)

\* The port file is read, or there is none, which is logged.
ReadPort(f) ==
  /\ forward[f].pc = "idle"
  /\ forward' = [forward EXCEPT ![f] =
       [pc |-> IF portFile = NoAuth THEN "done" ELSE "connect", port |-> portFile]]
  /\ UNCHANGED <<pc, result, fileVars, viewVars>>

\* The text arrives if the port is still listened on, or breaks off.  Any
\* process may connect: FromCallback may make anything of the text.
Connect(f) ==
  /\ forward[f].pc = "connect"
  /\ forward' = [forward EXCEPT ![f].pc = "done"]
  /\ LET a == forward[f].port IN
       \E c \in {"data", "invalid", "notFound", "broken"} :
         inbox' = IF pc[a] = "waiting" /\ inbox[a] = "none"
                  THEN [inbox EXCEPT ![a] = c] ELSE inbox
  /\ UNCHANGED <<pc, result, portFile, met, viewVars>>

-----------------------------------------------------------------------------
(* In a web view                                                           *)

Put(a, e) == queue' = [queue EXCEPT ![a] = Append(@, e)]
viewRest == <<fileVars, forward, result>>

\* setup_auth_window loads the request, or fails.
SetUp(a) ==
  /\ pc[a] = "start"
  /\ \/ /\ pc' = [pc EXCEPT ![a] = "loop"]
        /\ \E clean \in {"yes", "no"} : window' = [window EXCEPT ![a].shown = clean]
        /\ UNCHANGED <<result, page, loads, queue>>
     \/ End(a, "failure") /\ Gone(a)
  /\ UNCHANGED <<fileVars, forward>>

InView(a) == pc[a] \in {"loop", "retry"}

\* PageLoadEvent::Started cancels the scheduled raise and reads the page.
LoadStarted(a) ==
  /\ InView(a) /\ loads[a].begun < MaxLoads
  /\ \E p \in Pages : page' = [page EXCEPT ![a] = p]
  /\ loads' = [loads EXCEPT ![a] = [begun |-> @.begun + 1, state |-> "started", reads |-> 1]]
  /\ window' = [window EXCEPT ![a].token = "none"]
  /\ UNCHANGED <<viewRest, pc, queue>>

\* PageLoadEvent::Finished reads it again; on_response reads the headers, and
\* of a resource without a URI says that it is invalid.
LoadFinished(a) ==
  /\ InView(a) /\ loads[a].state = "started"
  /\ loads' = [loads EXCEPT ![a].state = "finished", ![a].reads = @ + 1]
  /\ \E r \in {ReadFromResponse(page[a].headers), <<"invalid">>} :
       queue' = [queue EXCEPT ![a] = @ \o r]
  /\ UNCHANGED <<viewRest, pc, page, window>>

\* The answer of get_html.  An error is only logged: it is as if none came,
\* which may be, as this action need not happen.
HtmlRead(a) ==
  /\ InView(a) /\ loads[a].reads > 0
  /\ loads' = [loads EXCEPT ![a].reads = @ - 1]
  /\ Put(a, ReadFromHtml(page[a]))
  /\ UNCHANGED <<viewRest, pc, page, window>>

TlsFails(a) ==
  /\ InView(a) /\ loads[a].state = "started"
  /\ loads' = [loads EXCEPT ![a].state = "finished"]
  /\ Put(a, "tls")
  /\ UNCHANGED <<viewRest, pc, page, window>>

CloseRequested(a) ==
  /\ InView(a) /\ window[a].shown = "yes" /\ ~Contains(queue[a], "close")
  /\ Put(a, "close")
  /\ UNCHANGED <<viewRest, pc, page, loads, window>>

\* The only window of the Tauri application is closed, by the user or by
\* authenticate: nobody prevents its exit, which nothing is printed before.
AppEnds(a) ==
  /\ pc[a] = "closing" \/ (InView(a) /\ Contains(queue[a], "close"))
  /\ pc' = [pc EXCEPT ![a] = "quit"] /\ Gone(a)
  /\ UNCHANGED viewRest

\* Faulty variant: only what handle_not_found scheduled.
RaiseIfScheduled(a) ==
  /\ InView(a) /\ Put(a, "raise") /\ window[a].token = "set"
  /\ window' = [window EXCEPT ![a].token = "over"]
  /\ UNCHANGED <<viewRest, pc, page, loads>>

\* Ten seconds after the setup, or two after a page without data.
TimeToRaise(a) ==
  /\ InView(a) /\ Put(a, "raise")
  /\ \/ window[a].late = "set" /\ window' = [window EXCEPT ![a].late = "over"]
     \/ window[a].token = "set" /\ window' = [window EXCEPT ![a].token = "over"]
  /\ UNCHANGED <<viewRest, pc, page, loads>>

\* The oldest event, and its removal.
Oldest(a, e) == pc[a] = "loop" /\ queue[a] # <<>> /\ Head(queue[a]) = e

Taken(a, e) ==
  /\ Oldest(a, e) /\ queue' = [queue EXCEPT ![a] = Tail(@)]
  /\ UNCHANGED <<fileVars, forward, page, loads>>

TakeEnd(a) ==
  /\ Oldest(a, "close") \/ Oldest(a, "tls")
  /\ End(a, "failure") /\ Gone(a)
  /\ UNCHANGED <<fileVars, forward>>

\* The window is closed before the answer is returned, and if it cannot be
\* closed the answer is not: `auth_window.close()?`.
TakeData(a) ==
  \/ /\ Taken(a, "data") /\ pc' = [pc EXCEPT ![a] = "closing"]
     /\ UNCHANGED <<result, window>>
  \/ /\ Oldest(a, "data") /\ End(a, "unclosed") /\ Gone(a)
     /\ UNCHANGED <<fileVars, forward>>

ReturnData(a) ==
  /\ pc[a] = "closing" /\ End(a, "success") /\ Gone(a)
  /\ UNCHANGED <<fileVars, forward>>

\* A window that cannot be shown is only logged.
TakeRaise(a) ==
  /\ Taken(a, "raise")
  /\ \E s \in {"yes", "failed"} :
       window' = [window EXCEPT ![a].shown = IF @ = "yes" THEN @ ELSE s]
  /\ UNCHANGED <<pc, result>>

\* handle_not_found; a raise that is scheduled already is enough.
TakeNotFound(a) ==
  /\ Taken(a, "notFound")
  /\ window' = [window EXCEPT ![a].token = IF window[a].shown = "yes" THEN @ ELSE "set"]
  /\ UNCHANGED <<pc, result>>

\* retry_auth is awaited before the next event is taken.
TakeInvalid(a) ==
  /\ Taken(a, "invalid")
  /\ pc' = [pc EXCEPT ![a] = "retry"]
  /\ UNCHANGED <<result, window>>

\* Faulty variant: a retry that fails ends the login.
RetriedOrFailed(a) ==
  /\ pc[a] = "retry" /\ (pc' = [pc EXCEPT ![a] = "loop"] \/ pc' = [pc EXCEPT ![a] = "ended"])
  /\ UNCHANGED <<viewRest, viewVars>>

\* The prelogin is done again and its page loaded, or has failed.
Retried(a) ==
  /\ pc[a] = "retry" /\ pc' = [pc EXCEPT ![a] = "loop"]
  /\ UNCHANGED <<viewRest, viewVars>>

Take(a) ==
  \/ TakeEnd(a) \/ TakeData(a) \/ ReturnData(a) \/ TakeRaise(a)
  \/ TakeNotFound(a) \/ TakeInvalid(a) \/ Retried(a)

-----------------------------------------------------------------------------
BrowserStep(a) == OpenBrowser(a) \/ WritePortFile(a) \/ Accept(a) \/ Parse(a)

Next ==
  \/ \E a \in Auth : Kill(a)
  \/ \E a \in BrowserAuth : BrowserStep(a)
  \/ \E f \in Forwarder : ReadPort(f) \/ Connect(f)
  \/ \E a \in WebviewAuth :
       \/ SetUp(a) \/ LoadStarted(a) \/ LoadFinished(a) \/ HtmlRead(a)
       \/ TlsFails(a) \/ CloseRequested(a) \/ AppEnds(a) \/ TimeToRaise(a) \/ Take(a)

Spec == Init /\ [][Next]_vars

\* gpauth goes on when it can, and its timer elapses.  Users, browsers, pages
\* and forwarders need not, and nothing has to work at the first attempt.
\* auth_prelogin has no time limit of its own: that it returns is assumed.
FairSpec ==
  /\ Spec
  /\ \A a \in BrowserAuth : WF_vars(Accept(a) \/ Parse(a))
  /\ \A a \in WebviewAuth : WF_vars(Take(a)) /\ WF_vars(TimeToRaise(a))

-----------------------------------------------------------------------------
Event == {"data", "invalid", "notFound", "tls", "close", "raise"}
Load == [begun : 0 .. MaxLoads, state : {"started", "finished"}, reads : Nat]
Window == [shown : {"yes", "no", "failed"}, late : {"set", "over"}, token : {"none", "set", "over"}]
Forwarding == [pc : {"idle", "connect", "done"}, port : BrowserAuth \cup {NoAuth}]

ProcessTypes ==
  /\ pc \in [Auth -> {"start", "opened", "waiting", "read", "loop", "retry", "closing",
                  "ended", "killed", "quit"}]
  /\ result \in [Auth -> {"none", "success", "failure", "unclosed"}]

FileTypes ==
  /\ portFile \in BrowserAuth \cup {NoAuth}
  /\ inbox \in [BrowserAuth -> {"none", "data", "invalid", "notFound", "broken"}]
  /\ met \subseteq BrowserAuth
  /\ forward \in [Forwarder -> Forwarding]
  /\ \A f \in Forwarder : forward[f].pc = "connect" => forward[f].port # NoAuth

ViewTypes ==
  /\ page \in [WebviewAuth -> Pages \cup {NoPage}]
  /\ loads \in [WebviewAuth -> Load]
  /\ queue \in [WebviewAuth -> Seq(Event)]
  /\ window \in [WebviewAuth -> Window]

\* The types of the variables: the port file is a browser login's or not
\* there, the queue of a web view holds the events its handlers make.
TypeOK == ProcessTypes /\ FileTypes /\ ViewTypes

\* A login that never waited while another one wrote the port file can be
\* reached: the file names its port, whatever crashed, late or stray forwarders
\* and earlier logins left behind.
SoleLoginReachable ==
  \A a \in BrowserAuth : (Waiting(a) /\ a \notin met) => portFile = a

\* The events up to the first one that ends the login.
DataAhead(a) ==
  \E i \in DOMAIN queue[a] :
    queue[a][i] = "data" /\ \A j \in 1 .. i - 1 : queue[a][j] \notin {"close", "tls"}

\* What the answer in the queue of a web view comes to: it is returned, or its
\* own window could not be closed, or the process was at an end before it.
Answered(a) == result[a] \in {"success", "unclosed"} \/ pc[a] \in {"killed", "quit"}

\* An answer that was received is not passed over: in a browser it makes the
\* login succeed unless another login meddled with the port file, in a web
\* view it is taken whatever pages, errors and retries come before it.
AnswerCounts ==
  /\ \A a \in BrowserAuth :
       (pc[a] = "waiting" /\ inbox[a] = "data")
         ~> (result[a] = "success" \/ pc[a] = "killed" \/ a \in met)
  /\ \A a \in WebviewAuth : (InView(a) /\ DataAhead(a)) ~> Answered(a)

\* The window is not left hidden behind pages that only the user can answer:
\* it is shown, or was asked to be.
WindowIsShown ==
  \A a \in WebviewAuth : (pc[a] = "loop") ~> (window[a].shown # "no" \/ Ended(a))
=============================================================================
