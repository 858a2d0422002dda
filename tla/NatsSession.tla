----------------------------- MODULE NatsSession -----------------------------
(***************************************************************************)
(* A persona container's NATS session.  connect_with_retry drives the live *)
(* adapter's connect (a TCP probe, the authentication mode, the library's  *)
(* dial); once it is over a task publishes through the adapter.  Other     *)
(* tasks connect and close it at any time: the adapter takes no lock, and  *)
(* a connect or a close goes on after its await with whatever the others   *)
(* have made of _client and _connected meanwhile.  Beside it the operator  *)
(* forwards an assignment with the bridge's command line, over a           *)
(* connection of its own, and forwards it again when told it failed.  What *)
(* reaches the broker is handed to a consumer whose filter matches, and    *)
(* the consumer parses the subject.                                        *)
(*                                                                         *)
(* The connection itself is the library's: it drops, comes back, or gives  *)
(* up, and loses what was not yet sent.                                    *)
(***************************************************************************)
EXTENDS ConnectRetry, NatsSubjects

CONSTANTS
  Tasks,          \* the other tasks that have the adapter
  Messages,       \* what the container may publish: parts of a subject
  Filters,        \* what the consumer may try to subscribe to
  Slugs,          \* what the operator may pass as --persona-slug
  MaxCalls        \* bound: connects of these tasks and runs of the bridge, together

ASSUME CallsAreBounded == MaxCalls \in Nat

ASSUME SubjectsAreText ==
  /\ Messages \subseteq [env : Tokens, domain : Tokens, event : Seq(Tokens), sub : Seq(Tokens)]
  /\ Filters \subseteq Seq(Tokens)
  /\ Slugs \subseteq Tokens

(* What the bridge's template spells out.                                  *)
ASSUME TemplateIsLowercase ==
  \A t \in RESERVED_ENVS \cup {"wakir", "agent", "task", "assigned"} :
    /\ t \in Tokens /\ Spelling[t].octets > 0
    /\ Spelling[t].first = "lower" /\ Spelling[t].chars = {"lower"}

VARIABLES
  authMode,       \* _auth_mode
  conn,           \* the connection of _client; none when that is None
  connected,      \* _connected
  dialing,        \* the retry loop's connect awaits the library's
  task,           \* ... another task's does, or its close awaits the client's
  connects,
  closed,         \* how close() has returned: without a client, with one (history)
  forgotten,      \* who left a connection open that nobody holds (history)
  overlapped,     \* a connect began beside another call, or a client (history)
  buffer,         \* published through the adapter, not yet at the broker
  bridge,         \* where the bridge's run is
  failing,        \* an exception is on its way out of the bridge
  wire,           \* published by the bridge, not yet at the broker
  runs,
  reported,       \* live runs that reported 0, and 3 (history)
  copies,         \* bridged assignments at the broker (history)
  received        \* what a consumer got since a message was last sent

ownership == <<conn, connected, dialing, task, connects, closed, forgotten, overlapped>>
adapter == <<authMode, ownership, buffer>>
forward == <<bridge, failing, wire, runs, reported, copies>>
sessionVars == <<vars, adapter, forward, received>>

Nothing == [sent |-> "nothing"]

(* What build_subject makes of the messages that it does not refuse.       *)
Buildable == {[sent |-> p, subject |-> Build(p)] : p \in {q \in Messages : Build(q) # Refused}}

SessionInit ==
  /\ Init
  /\ authMode \in {"mock-jwt", "live-spiffe"}
  /\ conn = "none" /\ connected = FALSE /\ dialing = FALSE
  /\ task = [t \in Tasks |-> "idle"] /\ connects = 0
  /\ closed = {} /\ forgotten = {} /\ overlapped = FALSE
  /\ buffer = Nothing
  /\ bridge = "idle" /\ failing = FALSE /\ wire = Nothing
  /\ runs = 0 /\ reported = [ok |-> 0, failed |-> 0] /\ copies = 0
  /\ received = Nothing
-----------------------------------------------------------------------------
(* connect: the retry loop's, or another task's.  Before the dial a        *)
(* connect does nothing to the adapter, so that of a task begins there.    *)

RetryAlone == UNCHANGED <<adapter, forward, received>>
AdapterAlone == UNCHANGED <<vars, authMode, forward, received>>

Live == {"open", "reconnecting"}

(* The tasks that await the close of a client no longer held are parted.   *)
BeingClosed == \E t \in Tasks : task[t] = "closing"
Parted == [t \in Tasks |-> IF task[t] = "closing" THEN "parted" ELSE task[t]]

(* No connect is to begin now if the adapter can have one owner.           *)
Overlaps == dialing \/ conn # "none" \/ \E t \in Tasks : task[t] # "idle"

ProbeFails ==
  /\ ~dialing
  /\ ConnectFails("tcp-unreachable")
  /\ RetryAlone

(* The server answers the probe, but live-spiffe cannot be satisfied.      *)
SpiffeRefused ==
  /\ ~dialing /\ authMode = "live-spiffe"
  /\ ConnectFails("auth-rejected")
  /\ RetryAlone

Dial ==
  /\ pc = "connect" /\ ~dialing /\ authMode = "mock-jwt"
  /\ dialing' = TRUE /\ overlapped' = (overlapped \/ Overlaps)
  /\ UNCHANGED <<conn, connected, task, connects, closed, forgotten, buffer>>
  /\ AdapterAlone

(* A client whose connect failed or was cancelled is let go, not closed.   *)
LetGo == forgotten' \in {forgotten, forgotten \cup {"library"}}

DialFails(reason) ==
  /\ dialing
  /\ ConnectFails(reason)
  /\ dialing' = FALSE /\ LetGo
  /\ UNCHANGED <<authMode, conn, connected, task, connects, closed, overlapped, buffer>>
  /\ UNCHANGED <<forward, received>>

(* Cancellation passes every handler of the adapter.                       *)
DialCancelled ==
  /\ dialing
  /\ ConnectRaises
  /\ dialing' = FALSE /\ LetGo
  /\ UNCHANGED <<authMode, conn, connected, task, connects, closed, overlapped, buffer>>
  /\ UNCHANGED <<forward, received>>

(* The new client takes the place of the one held, if any, which stays     *)
(* open unless somebody is closing it.                                     *)
Hold ==
  /\ conn' = "open" /\ connected' = TRUE
  /\ forgotten' = forgotten \cup IF conn \in Live /\ ~BeingClosed THEN {"adapter"} ELSE {}
  /\ buffer' \in {buffer} \cup IF conn = "none" THEN {} ELSE {Nothing}

DialSucceeds ==
  /\ dialing
  /\ ConnectSucceeds
  /\ Hold
  /\ dialing' = FALSE /\ task' = Parted
  /\ UNCHANGED <<authMode, connects, closed, overlapped, forward, received>>

TaskConnects(t) ==
  /\ task[t] = "idle" /\ connects + runs < MaxCalls /\ authMode = "mock-jwt"
  /\ task' = [task EXCEPT ![t] = "dialing"] /\ connects' = connects + 1
  /\ overlapped' = (overlapped \/ Overlaps)
  /\ UNCHANGED <<conn, connected, dialing, closed, forgotten, buffer>>
  /\ AdapterAlone

TaskDialEnds(t) ==
  /\ task[t] = "dialing"
  /\ \/ Hold /\ task' = [Parted EXCEPT ![t] = "idle"]
     \/ LetGo /\ task' = [task EXCEPT ![t] = "idle"] /\ UNCHANGED <<conn, connected, buffer>>
  /\ UNCHANGED <<dialing, connects, closed, overlapped>>
  /\ AdapterAlone
-----------------------------------------------------------------------------
(* close and publish.                                                      *)

Close(t) ==
  /\ task[t] = "idle"
  /\ IF conn # "none"
     THEN task' = [task EXCEPT ![t] = "closing"] /\ UNCHANGED <<connected, closed>>
     ELSE connected' = FALSE /\ closed' = closed \cup {"empty"} /\ UNCHANGED task
  /\ UNCHANGED <<conn, dialing, connects, forgotten, overlapped, buffer>>
  /\ AdapterAlone

(* _client and _connected are reset, whoever set them meanwhile.           *)
Reset(t) ==
  /\ conn' = "none" /\ connected' = FALSE
  /\ closed' = closed \cup {"client"}
  /\ task' = [Parted EXCEPT ![t] = "idle"]
  /\ buffer' \in {buffer} \cup IF conn \in Live THEN {Nothing} ELSE {}
  /\ UNCHANGED <<dialing, connects, overlapped>>
  /\ AdapterAlone

(* Faulty variant: the client is forgotten without having been closed.     *)
CloseForgets(t) ==
  /\ task[t] \in {"closing", "parted"}
  /\ forgotten' = forgotten \cup IF conn \in Live THEN {"adapter"} ELSE {}
  /\ Reset(t)

(* The client's close has returned; or it has raised, which close          *)
(* suppresses, and the client is let go as it is.                          *)
CloseReturns(t) ==
  /\ \/ task[t] = "closing"
        /\ forgotten' = forgotten \cup IF conn \in Live THEN {"library"} ELSE {}
     \/ task[t] = "parted"
        /\ \E raised \in SUBSET {"library"} :
             forgotten' = forgotten \cup raised
                            \cup IF conn \in Live /\ ~BeingClosed THEN {"adapter"} ELSE {}
  /\ Reset(t)

(* Cancellation passes close as well.                                      *)
CloseCancelled(t) ==
  /\ task[t] \in {"closing", "parted"}
  /\ task' = [task EXCEPT ![t] = "idle"]
  /\ IF task[t] = "parted" THEN LetGo ELSE UNCHANGED forgotten
  /\ UNCHANGED <<conn, connected, dialing, connects, closed, overlapped, buffer>>
  /\ AdapterAlone

(* publish raises without a client, and when the client does.              *)
Publish(m) ==
  /\ pc = "done"
  /\ connected /\ conn \in Live
  /\ buffer = Nothing
  /\ buffer' = m /\ received' = Nothing
  /\ UNCHANGED <<vars, authMode, ownership, forward>>
-----------------------------------------------------------------------------
(* The library: it closes when told to or after too many failures to       *)
(* reconnect; what was not sent by then is lost.                           *)

Held == UNCHANGED <<connected, dialing, task, connects, closed, forgotten, overlapped>>

LinkDrops ==
  /\ conn = "open"
  /\ conn' = "reconnecting"
  /\ buffer' \in {buffer, Nothing}
  /\ Held /\ AdapterAlone

LinkReturns ==
  /\ conn = "reconnecting"
  /\ conn' = "open"
  /\ UNCHANGED buffer
  /\ Held /\ AdapterAlone

ClientCloses ==
  /\ conn = "reconnecting" \/ (conn = "open" /\ BeingClosed)
  /\ conn' = "closed" /\ buffer' = Nothing
  /\ Held /\ AdapterAlone

Subscriptions == {f \in Filters : ValidConsumerFilter(f) /\ Subscribable(f)}

(* The broker hands the message to a consumer whose filter matches.        *)
Receive(m) ==
  \/ \E f \in Subscriptions :
       /\ Matches(f, m.subject)
       /\ received' = [sent |-> m.sent, filter |-> f, parsed |-> Parse(m.subject),
                       schema |-> SchemaForSubject(m.subject)]
  \/ UNCHANGED received

(* A client that is no longer held may still send.                         *)
Delivered ==
  /\ buffer # Nothing
  /\ conn = "open" \/ forgotten # {} \/ \E t \in Tasks : task[t] = "parted"
  /\ Receive(buffer)
  /\ buffer' = Nothing
  /\ UNCHANGED <<vars, authMode, ownership, forward>>
-----------------------------------------------------------------------------
(* wakir-bridge-forward.  One sender at a time: its runs begin when the    *)
(* container's connect is over and its buffer is empty.                    *)

Assignment(env, slug) ==
  [env |-> env, domain |-> "agent", event |-> <<"agent", "task", "assigned">>, sub |-> <<slug>>]

(* SUBJECT_TEMPLATE with a slug of any length.                             *)
BridgeSubject(p) ==
  IF p.env \in RESERVED_ENVS /\ LeadingToken(p.sub[1]) THEN Joined(p) ELSE Refused

(* What a run finds of its inputs, whose sizes validate_envelope and whose *)
(* form _parse_metadata judge.                                             *)
Inputs == [readable : BOOLEAN, metadataOk : BOOLEAN, fits : BOOLEAN, dry : BOOLEAN]

(* The exit code of a run that ends before it connects; 3 stands for one   *)
(* that goes on.                                                           *)
EarlyExit(in, subject) ==
  CASE ~in.readable \/ ~in.metadataOk -> 1
    [] in.readable /\ in.metadataOk /\ ~in.fits -> 2
    [] in.readable /\ in.metadataOk /\ in.fits /\ subject = Refused -> 1
    [] OTHER -> IF in.dry THEN 0 ELSE 3

Start(p) ==
  /\ pc = "done" /\ buffer = Nothing
  /\ bridge = "idle" /\ wire = Nothing /\ connects + runs < MaxCalls
  /\ runs' = runs + 1 /\ received' = Nothing
  /\ LET subject == BridgeSubject(p) IN
     \E in \in Inputs :
       IF EarlyExit(in, subject) = 3
       THEN bridge' = "connecting" /\ wire' = [sent |-> p, subject |-> subject]
       ELSE UNCHANGED <<bridge, wire>>
  /\ UNCHANGED <<vars, adapter, failing, reported, copies>>

Report(code) ==
  /\ bridge' = "idle" /\ failing' = FALSE
  /\ reported' = IF code = 0 THEN [reported EXCEPT !.ok = @ + 1]
                             ELSE [reported EXCEPT !.failed = @ + 1]

(* nats.connect succeeds, or raises and the message is never sent.         *)
BridgeConnects ==
  /\ bridge = "connecting"
  /\ \/ bridge' = "connected" /\ UNCHANGED <<failing, reported, wire>>
     \/ Report(3) /\ wire' = Nothing
  /\ UNCHANGED <<vars, adapter, runs, copies, received>>

BridgePublishes ==
  /\ bridge = "connected"
  /\ \/ bridge' = "published" /\ UNCHANGED <<failing, wire>>
     \/ bridge' = "draining" /\ failing' = TRUE /\ wire' = Nothing
  /\ UNCHANGED <<vars, adapter, runs, reported, copies, received>>

(* Faulty variant: nobody waits for the server's answer.                   *)
BridgeSkipsFlush ==
  /\ bridge = "published"
  /\ bridge' = "draining" /\ failing' = FALSE
  /\ UNCHANGED <<vars, adapter, wire, runs, reported, copies, received>>

(* flush returns when the server has answered, so after the message; else  *)
(* it times out with the message still under way, or the connection is     *)
(* lost and the message may be too.                                        *)
BridgeFlushes ==
  /\ bridge = "published"
  /\ bridge' = "draining"
  /\ \/ wire = Nothing /\ UNCHANGED <<failing, wire>>
     \/ failing' = TRUE /\ wire' \in {wire, Nothing}
  /\ UNCHANGED <<vars, adapter, runs, reported, copies, received>>

(* drain may raise too, after a successful flush.                          *)
BridgeDrains ==
  /\ bridge = "draining"
  /\ \E code \in IF failing THEN {3} ELSE {0, 3} : Report(code)
  /\ UNCHANGED <<vars, adapter, wire, runs, copies, received>>

(* Sent when published, but a copy still under way can arrive after the    *)
(* run has given up, or get lost.                                          *)
BridgeDelivered ==
  /\ wire # Nothing /\ bridge \in {"published", "draining", "idle"}
  /\ \/ copies' = copies + 1 /\ Receive(wire)
     \/ bridge = "idle" /\ UNCHANGED <<copies, received>>
  /\ wire' = Nothing
  /\ UNCHANGED <<vars, adapter, bridge, failing, runs, reported>>
-----------------------------------------------------------------------------
RetryStep == Begin \/ PollWakes \/ BackOffEnds \/ Tick

ConnectStep ==
  \/ RetryStep /\ RetryAlone
  \/ ProbeFails
  \/ SpiffeRefused
  \/ Dial
  \/ \E r \in {"auth-rejected", "nats-py-connect-fail"} : DialFails(r)
  \/ DialCancelled
  \/ DialSucceeds

SessionNext ==
  \/ ConnectStep
  \/ CallerReads /\ RetryAlone
  \/ SleepCancelled /\ RetryAlone
  \/ CacheFlips /\ RetryAlone
  \/ \E t \in Tasks : TaskConnects(t) \/ TaskDialEnds(t)
  \/ \E t \in Tasks : Close(t) \/ CloseReturns(t) \/ CloseCancelled(t)
  \/ \E m \in Buildable : Publish(m)
  \/ LinkDrops
  \/ LinkReturns
  \/ ClientCloses
  \/ Delivered
  \/ \E env \in RESERVED_ENVS, slug \in Slugs : Start(Assignment(env, slug))
  \/ BridgeConnects
  \/ BridgePublishes
  \/ BridgeFlushes
  \/ BridgeDrains
  \/ BridgeDelivered

(* The event loop runs and time passes; the library's dial has a timeout.  *)
SessionSpec == SessionInit /\ [][SessionNext]_sessionVars /\ WF_sessionVars(ConnectStep)
-----------------------------------------------------------------------------
(* What the caller is told about the connection is so: after a success the *)
(* adapter holds it until a close has got hold of it, without one it holds *)
(* none that no other task opened, and live-spiffe never falls back.  And  *)
(* unless some connect overlapped another call, or came while a client was *)
(* held, the adapter forgets no connection that it has not asked to close, *)
(* whenever and however often others publish and close, in the middle of a *)
(* dial or of another close too, and whatever raises or is cancelled.      *)
OutcomeIsTheConnection ==
  /\ connected <=> conn # "none"
  /\ succeeded /\ "client" \notin closed => conn # "none"
  /\ ~succeeded /\ connects = 0 => conn = "none"
  /\ authMode = "live-spiffe" => ~succeeded /\ conn = "none"
  /\ "adapter" \in forgotten => overlapped

(* The operator retries by the exit code alone, so it must bound what was  *)
(* forwarded: each run that reports 0 put a copy on the broker, and at     *)
(* most the runs that report 3 may have put one too; refused runs and dry  *)
(* ones send nothing.                                                      *)
ExitTellsCopies ==
  /\ copies >= reported.ok
  /\ bridge = "idle" => copies <= reported.ok + reported.failed

(* A consumer with a filter that passed validation gets messages of the    *)
(* one environment and domain it names, and parses out of a reserved event *)
(* type, with a sub_id that is none or an anchor of at most 64 octets, the *)
(* parts its producer put in.  (The bridge does not check the length.)     *)
ReceivedAsMeant ==
  received # Nothing =>
    /\ received.filter[2] = received.sent.env
    /\ received.filter[3] = received.sent.domain
    /\ Reserved(received.sent.domain, received.sent.event)
       /\ (received.sent.sub # NoSubId => LooksLikeSubIdAnchor(received.sent.sub))
       /\ FitsSubId(received.sent.sub)
       => received.parsed = {received.sent}
          /\ received.schema = {SchemaInventory(SubSeq(received.sent.event, 1, 2))}

(* NatsConnectionAdapter.close: after close, the adapter is unusable.      *)
ClosedStaysClosed ==
  closed # {} /\ connects = 0 /\ (\A t \in Tasks : task[t] = "idle") => ~connected

(* NatsConnectionAdapter: implementations must be safe for concurrent use  *)
(* from multiple tasks; close releases the connection.                     *)
NothingIsForgotten == "adapter" \notin forgotten

(* NatsAdapterStatus.connected: true iff the adapter holds an open NATS    *)
(* connection.                                                             *)
StatusMeansOpen == connected => conn \in Live

(* The mapping's document, W6 and T-NSM-08: a filter with * at the         *)
(* event-type level is rejected.                                           *)
NoStarForEventType == received # Nothing => received.filter[4] # "*"

(* nats_subject_mapping.py:322: peeling the sub_id off "keeps the          *)
(* build/parse roundtrip exact": what build accepts for a reserved type    *)
(* parses to its parts.                                                    *)
BuiltSubjectsParse ==
  received # Nothing /\ Reserved(received.sent.domain, received.sent.event)
    => received.parsed = {received.sent}
=============================================================================
