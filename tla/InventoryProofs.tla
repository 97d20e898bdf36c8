-------------------------- MODULE InventoryProofs --------------------------
(***************************************************************************)
(* Proofs about the inventory operation, for listings of any size, and     *)
(* about the run around it. The invariant places every entry received from *)
(* the provider: it is in the stream, in the goroutine's hand, or comes    *)
(* after a bad entry that was put on done.                                 *)
(***************************************************************************)
EXTENDS InventoryRun, SequenceTheorems, FiniteSetTheorems, TLAPS

\* The goroutine has met an entry that cannot be encoded, and reported it.
Bad == spc \in {"cancel", "drain", "exit"} /\ entry \in unencodable

\* What the caller's position says of the channels and of the goroutine.
Phases ==
    /\ pc \in {"start", "stream"} => spc = "none"
    /\ pc \in {"list", "join", "close"} => spc # "none"
    /\ spc = "none" => /\ listed = 0 /\ stream = <<>> /\ done = <<>>
                       /\ pc \in {"start", "stream"} \/ result = "setup"
    /\ entriesClosed => pc \in {"join", "close", "done"}
    /\ entriesClosed /\ ~listErr => listed = size
    /\ pc \in {"join", "close"} => entriesClosed
    /\ doneClosed <=> spc = "exit"
    /\ pc \in {"start", "stream", "list", "join"} <=> result = "none"

\* Where the entries received so far are.
Placed ==
    /\ entry <= listed
    /\ \A e \in unencodable : e > Len(stream)
    /\ spc = "recv" => Len(stream) = listed /\ entry \notin unencodable
    /\ spc = "encode" => entry = listed /\ Len(stream) + 1 = listed
    /\ spc \in {"cancel", "drain"} => entry \in unencodable
    /\ spc = "exit" /\ entry \notin unencodable => Len(stream) = listed

\* A bad entry is on done until the caller takes it.
Reported ==
    /\ done # <<>> => Bad
    /\ Bad /\ pc \in {"list", "join"} => done # <<>>
    /\ Bad /\ pc \in {"close", "done"} => result = "encode"
    /\ result \in {"nil", "list"} => spc = "exit"
    /\ result = "encode" => Bad
    /\ result = "nil" => entriesClosed /\ ~listErr
    /\ result = "setup" => spc = "none"

Inv == TypeOK /\ StreamIsPrefix /\ Phases /\ Placed /\ Reported

\* The initial states satisfy the invariant.
LEMMA InitInv == Init => Inv
<1> SUFFICES ASSUME Init PROVE Inv
  OBVIOUS
<1>1. TypeOK
  <2>1. size \in 0..MaxEntries /\ 0 \in 0..size
    BY MaxEntriesAssumption DEF Init
  <2>2. <<>> \in Seq(1..size) /\ Len(<<>>) <= DoneCap
    BY DEF DoneCap
  <2> QED BY <2>1, <2>2 DEF Init, TypeOK
<1>2. StreamIsPrefix /\ Phases /\ Placed /\ Reported
  BY MaxEntriesAssumption DEF Init, StreamIsPrefix, Phases, Placed, Reported, Bad
<1> QED BY <1>1, <1>2 DEF Inv

USE DEF provider, sender

\* Every step keeps the types, and done within its room.
LEMMA NextTypeOK == ASSUME TypeOK, Placed, [Next]_vars PROVE TypeOK'
<1> USE DEF TypeOK
<1>1. CASE ListInventory BY <1>1 DEF ListInventory
<1>2. CASE StreamEntries BY <1>2 DEF StreamEntries
<1>3. CASE ListPush
  <2>1. listed + 1 \in 0..size BY <1>3 DEF ListPush
  <2> QED BY <1>3, <2>1 DEF ListPush
<1>4. CASE ListReturn
  <2>1. listErr' \in BOOLEAN BY <1>4 DEF ListReturn
  <2> QED BY <1>4, <2>1 DEF ListReturn
<1>5. CASE Join
  <2>1. <<>> \in Seq(1..size) /\ Len(<<>>) <= DoneCap BY DEF DoneCap
  <2> QED BY <1>5, <2>1 DEF Join, StreamError
<1>6. CASE CloseInventory BY <1>6 DEF CloseInventory
<1>7. CASE SendEntry
  <2>1. entry \in 1..size BY <1>7 DEF SendEntry, Placed
  <2> QED BY <1>7, <2>1 DEF SendEntry
<1>8. CASE ReportEncodeError
  BY <1>8 DEF ReportEncodeError, DoneCap, AfterBadEntry
<1>9. CASE CancelProvider BY <1>9 DEF CancelProvider
<1>10. CASE SenderExit BY <1>10 DEF SenderExit
<1>11. CASE UNCHANGED vars BY <1>11 DEF vars
<1> QED BY <1>1, <1>2, <1>3, <1>4, <1>5, <1>6, <1>7, <1>8, <1>9, <1>10, <1>11
        DEF Next, Caller, List, Sender, Terminated

\* The invariant is inductive.
LEMMA NextInv == Inv /\ [Next]_vars => Inv'
<1> SUFFICES ASSUME Inv, [Next]_vars PROVE Inv'
  OBVIOUS
<1>0. TypeOK /\ TypeOK' BY NextTypeOK DEF Inv
<1> SUFFICES StreamIsPrefix' /\ Phases' /\ Placed' /\ Reported'
  BY <1>0 DEF Inv
<1> USE DEF StreamIsPrefix, Phases, Placed, Reported, Bad
<1>1. CASE ListInventory BY <1>0, <1>1 DEF Inv, TypeOK, ListInventory
<1>2. CASE StreamEntries BY <1>0, <1>2 DEF Inv, TypeOK, StreamEntries
<1>3. CASE ListPush BY <1>0, <1>3 DEF Inv, TypeOK, ListPush, Draining
<1>4. CASE ListReturn BY <1>0, <1>4 DEF Inv, TypeOK, ListReturn
<1>5. CASE Join BY <1>0, <1>5 DEF Inv, TypeOK, Join, SenderAwaited, StreamError
<1>6. CASE CloseInventory BY <1>0, <1>6 DEF Inv, TypeOK, CloseInventory
<1>7. CASE SendEntry BY <1>0, <1>7 DEF Inv, TypeOK, SendEntry
<1>8. CASE ReportEncodeError
  BY <1>0, <1>8 DEF Inv, TypeOK, ReportEncodeError, AfterBadEntry
<1>9. CASE CancelProvider BY <1>0, <1>9 DEF Inv, TypeOK, CancelProvider
<1>10. CASE SenderExit BY <1>0, <1>10 DEF Inv, TypeOK, SenderExit
<1>11. CASE UNCHANGED vars BY <1>11 DEF Inv, vars
<1> QED BY <1>1, <1>2, <1>3, <1>4, <1>5, <1>6, <1>7, <1>8, <1>9, <1>10, <1>11
        DEF Next, Caller, List, Sender, Terminated

\* The invariant holds in every reachable state.
LEMMA Invariance == Spec => []Inv
  BY InitInv, NextInv, PTL DEF Spec

\* Every variable keeps its type, and an encoding error never blocks on done.
THEOREM TypeCorrect == Spec => []TypeOK
<1>1. Inv => TypeOK BY DEF Inv
<1> QED BY <1>1, Invariance, PTL

(***************************************************************************)
(* However long the listing and whichever entries cannot be encoded, what  *)
(* is streamed is the listing up to some point, in its order.              *)
(***************************************************************************)
THEOREM NoHoles == Spec => []StreamIsPrefix
<1>1. Inv => StreamIsPrefix BY DEF Inv
<1> QED BY <1>1, Invariance, PTL

(***************************************************************************)
(* A nil error means that List ended well and that every entry was sent,   *)
(* the one in flight when List returned included.                          *)
(***************************************************************************)
THEOREM NoShortSuccess == Spec => []SuccessIsComplete
<1>1. Inv => SuccessIsComplete
  BY DEF Inv, TypeOK, Phases, Placed, Reported, Bad, SuccessIsComplete
<1> QED BY <1>1, Invariance, PTL

(***************************************************************************)
(* The error reported is that of the entry that could not be encoded,      *)
(* whatever List makes of the cancellation that follows.                   *)
(***************************************************************************)
THEOREM CauseReported == Spec => []EncodeErrorWins
<1>1. Inv => EncodeErrorWins
  BY DEF Inv, TypeOK, Phases, Placed, Reported, Bad, EncodeErrorWins
<1> QED BY <1>1, Invariance, PTL

-----------------------------------------------------------------------------
(* The run *)

\* A run takes the operation's own steps, or leaves it alone.
LEMMA RunStepIsStep == [RunNext]_allVars => [Next]_vars
  BY DEF RunNext, allVars, Around, Listing, Pushing, ListReturning, Closing,
         Sending, Winding, Returning, Ended, Next, Caller, List, Sender

\* It holds in every state of a whole run.
LEMMA RunInvariance == RunSpec => []Inv
<1>1. RunInit => Inv BY InitInv DEF RunInit
<1>2. Inv /\ [RunNext]_allVars => Inv' BY RunStepIsStep, NextInv
<1> QED BY <1>1, <1>2, PTL DEF RunSpec

(***************************************************************************)
(* Inside an executor the operation still is the one of module Inventory,  *)
(* so that the theorems above hold of it.                                  *)
(***************************************************************************)
THEOREM RunsInventory == RunSpec => Spec
<1>1. RunInit => Init BY DEF RunInit
<1> QED BY <1>1, RunStepIsStep, PTL DEF RunSpec, Spec

Before == {"setup", "decode", "listen", "spawn"}
After  == {"stop", "join", "closebus", "drain", "verdict", "fail", "report",
           "succeed"}

\* Main calls the operation once, and goes on with what it returned.
Called ==
    /\ mainPc \in Before => pc = "start"
    /\ mainPc \in After => pc = "done" /\ opErr = (result # "nil")
    /\ mainPc \in Before \cup After \cup {"dispatch", "exit", "killed"}
    /\ report = Exec!NoReport
    /\ mainPc \in {"report", "succeed"} => ~opErr

\* An inventory emits no event, and sends an entry or the one warning at a time.
Quiet ==
    /\ op = "inventory" /\ emitting = Exec!NoEvent
    /\ messages \in Nat
    /\ messages <= Len(stream) + (IF pc = "done" THEN 1 ELSE 0)

Entries == {i \in DOMAIN replies : replies[i] = "inventory"}

\* The driver gets the stream, and success only for a nil error.
Received ==
    /\ replies \in Seq(Exec!RS!ReplyTypes)
    /\ IsFiniteSet(Entries) /\ Cardinality(Entries) = Len(stream)
    /\ Exec!RS!LastReply = "success" => mainPc = "exit" /\ result = "nil"

RunInv == Inv /\ Called /\ Quiet /\ Received

\* What a reply adds.
LEMMA ReplySent ==
    ASSUME replies \in Seq(Exec!RS!ReplyTypes), IsFiniteSet(Entries),
           NEW t \in Exec!RS!ReplyTypes, Exec!send(t)
    PROVE  /\ replies' \in Seq(Exec!RS!ReplyTypes) /\ Exec!RS!LastReply' = t
           /\ IsFiniteSet(Entries') /\ Cardinality(Entries) \in Nat
           /\ Cardinality(Entries') =
                  Cardinality(Entries) + (IF t = "inventory" THEN 1 ELSE 0)
<1> DEFINE n == Len(replies)
<1>1. /\ replies' \in Seq(Exec!RS!ReplyTypes) /\ n \in Nat
      /\ Len(replies') = n + 1 /\ DOMAIN replies' = 1..(n + 1)
      /\ replies'[n + 1] = t /\ \A i \in 1..n : replies'[i] = replies[i]
      /\ DOMAIN replies = 1..n
  BY DEF Exec!send
<1>2. replies' # <<>> BY <1>1
<1>3. Exec!RS!LastReply' = t BY <1>1, <1>2 DEF Exec!RS!LastReply
<1>4. CASE t = "inventory"
  <2>1. Entries' = Entries \cup {n + 1} /\ n + 1 \notin Entries
    BY <1>1, <1>4 DEF Entries
  <2> QED BY <1>1, <1>3, <1>4, <2>1, FS_AddElement, FS_CardinalityType
<1>5. CASE t # "inventory"
  <2>1. Entries' = Entries BY <1>1, <1>5 DEF Entries
  <2> QED BY <1>1, <1>3, <1>5, <2>1, FS_CardinalityType
<1> QED BY <1>4, <1>5

\* What the rest of the process does is none of the operation's business.
LEMMA AroundStep ==
    ASSUME Called, Around
    PROVE  /\ UNCHANGED <<vars, op, emitting, messages, opErr, report>>
           /\ Called'
           /\ \/ UNCHANGED replies /\ (mainPc = "exit" => mainPc' = "exit")
              \/ \E t \in Exec!RS!ReplyTypes \ {"inventory", "success"} :
                    Exec!send(t) /\ mainPc # "exit"
              \/ Exec!send("success") /\ mainPc = "succeed" /\ mainPc' = "exit"
<1> USE DEF Exec!Goto, Exec!Exit, Exec!listener, Exec!sampler, Exec!signaller,
            Exec!operation, Exec!Running, Called, Before, After, vars,
            Exec!RS!ReplyTypes, Exec!RS!LiveReplies, Exec!RS!TerminalReplies
<1>0. UNCHANGED vars BY DEF Around
<1>1. CASE Exec!Setup BY <1>0, <1>1 DEF Exec!Setup
<1>2. CASE Exec!Decode BY <1>0, <1>2 DEF Exec!Decode
<1>3. CASE Exec!Run BY <1>0, <1>3 DEF Exec!Run
<1>4. CASE Exec!Spawn BY <1>0, <1>4 DEF Exec!Spawn
<1>5. CASE Exec!CloseStateStop BY <1>0, <1>5 DEF Exec!CloseStateStop
<1>6. CASE Exec!Join BY <1>0, <1>6 DEF Exec!Join
<1>7. CASE Exec!CloseBus BY <1>0, <1>7 DEF Exec!CloseBus
<1>8. CASE Exec!Wait BY <1>0, <1>8 DEF Exec!Wait
<1>9. CASE Exec!Verdict BY <1>0, <1>9 DEF Exec!Verdict
<1>10. CASE Exec!SendFailure BY <1>0, <1>10 DEF Exec!SendFailure
<1>11. CASE Exec!SendReport BY <1>0, <1>11 DEF Exec!SendReport
<1>12. CASE Exec!SendSuccess BY <1>0, <1>12 DEF Exec!SendSuccess
<1>13. CASE Exec!Listener
  BY <1>0, <1>13 DEF Exec!Listener, Exec!HandleEvent, Exec!ListenerDone
<1>14. CASE Exec!Sampler
  BY <1>0, <1>14 DEF Exec!Sampler, Exec!SamplerTick, Exec!SamplerStop,
                     Exec!SamplerEmit
<1>15. CASE Exec!Signal BY <1>0, <1>15 DEF Exec!Signal
<1>16. CASE Exec!CancelOnSignal
  BY <1>0, <1>16 DEF Exec!CancelOnSignal, Exec!Notify, Exec!CancelOnSignalStop,
                     Exec!AnnounceSignal, Exec!Cancel
<1> QED
  BY <1>1, <1>2, <1>3, <1>4, <1>5, <1>6, <1>7, <1>8, <1>9, <1>10, <1>11, <1>12,
     <1>13, <1>14, <1>15, <1>16 DEF Around, Exec!MainStep

\* The initial states of a run satisfy its invariant.
LEMMA RunInitInv == RunInit => RunInv
<1> SUFFICES ASSUME RunInit PROVE RunInv
  OBVIOUS
<1>1. Inv BY InitInv DEF RunInit
<1>2. Called /\ Quiet
  BY DEF RunInit, Init, Exec!Init, Called, Quiet, Before, After
<1>3. replies = <<>> /\ stream = <<>> BY DEF RunInit, Init, Exec!Init
<1>4. Entries = {} BY <1>3 DEF Entries
<1>5. Received
  BY <1>3, <1>4, FS_EmptySet DEF Received, Exec!RS!LastReply
<1> QED BY <1>1, <1>2, <1>5 DEF RunInv

\* Steps that write nothing leave what the driver has alone.
LEMMA NothingSent ==
    ASSUME UNCHANGED replies
    PROVE  Entries' = Entries /\ Exec!RS!LastReply' = Exec!RS!LastReply
  BY DEF Entries, Exec!RS!LastReply

\* Quiet steps of the operation, which Main does not see.
LEMMA QuietStep ==
    ASSUME RunInv, Inv', Next, Quietly, UNCHANGED stream,
           mainPc = "dispatch" \/ UNCHANGED <<pc, result>>
    PROVE  RunInv'
<1> USE DEF RunInv, Quietly, elsewhere
<1>1. Called' BY DEF Called, Before, After
<1>2. pc = "done" => pc' = "done"
  BY DEF Next, Caller, List, Sender, ListInventory, StreamEntries, Join,
         CloseInventory, ListPush, ListReturn, SendEntry, ReportEncodeError,
         CancelProvider, SenderExit, Terminated, vars
<1>3. Quiet' BY <1>2 DEF Quiet, Inv, TypeOK
<1>4. mainPc = "exit" => UNCHANGED result BY DEF Next
<1>5. Received' BY <1>4, NothingSent DEF Received
<1> QED BY <1>1, <1>3, <1>5

\* Every step of a run preserves its invariant.
LEMMA RunNextInv == RunInv /\ [RunNext]_allVars => RunInv'
<1> SUFFICES ASSUME RunInv, [RunNext]_allVars PROVE RunInv'
  OBVIOUS
<1>0. Inv /\ Inv' /\ [Next]_vars BY RunStepIsStep, NextInv DEF RunInv
<1>1. CASE Around
  <2>1. Called' /\ UNCHANGED <<vars, op, emitting, messages>>
    BY <1>1, AroundStep DEF RunInv
  <2>2. Quiet' BY <2>1 DEF RunInv, Quiet, vars
  <2>3. UNCHANGED <<stream, result>> BY <2>1 DEF vars
  <2>4. ASSUME UNCHANGED replies, mainPc = "exit" => mainPc' = "exit"
        PROVE  Received'
    BY <2>3, <2>4, NothingSent DEF RunInv, Received
  <2>5. ASSUME NEW t \in Exec!RS!ReplyTypes \ {"inventory", "success"},
               Exec!send(t)
        PROVE  Received'
    BY <2>3, <2>5, ReplySent DEF RunInv, Received, Inv, TypeOK
  <2>6. ASSUME Exec!send("success"), mainPc = "succeed", mainPc' = "exit"
        PROVE  Received'
    <3>1. result = "nil" BY <2>6 DEF RunInv, Called, After
    <3>2. "success" \in Exec!RS!ReplyTypes
      BY DEF Exec!RS!ReplyTypes, Exec!RS!TerminalReplies
    <3> QED BY <2>3, <2>6, <3>1, <3>2, ReplySent DEF RunInv, Received, Inv, TypeOK
  <2>7. Received' BY <1>1, <2>4, <2>5, <2>6, AroundStep DEF RunInv
  <2> QED BY <1>0, <2>1, <2>2, <2>7 DEF RunInv
<1>2. CASE Listing
  BY <1>0, <1>2, QuietStep DEF Listing, Next, Caller, ListInventory,
     StreamEntries, Join
<1>3. CASE Pushing BY <1>0, <1>3, QuietStep DEF Pushing, Next, List, ListPush
<1>4. CASE ListReturning
  BY <1>0, <1>4, QuietStep DEF ListReturning, Next, List, ListReturn
<1>5. CASE Closing
  <2>1. CASE Quietly
    BY <1>0, <1>5, <2>1, QuietStep DEF Closing, Next, Caller, CloseInventory
  <2>2. CASE Sends("warning")
    <3>1. "warning" \in Exec!RS!ReplyTypes
      BY DEF Exec!RS!ReplyTypes, Exec!RS!LiveReplies
    <3>2. /\ pc = "close" /\ pc' = "done" /\ UNCHANGED <<stream, result>>
          /\ mainPc = "dispatch"
      BY <1>5 DEF Closing, CloseInventory
    <3>3. Called' /\ Quiet'
      BY <1>0, <2>2, <3>2 DEF Sends, elsewhere, RunInv, Called, Before, After,
         Quiet, Inv, TypeOK
    <3>4. Received'
      BY <1>0, <2>2, <3>1, <3>2, ReplySent DEF Sends, RunInv, Received, Inv, TypeOK
    <3> QED BY <1>0, <3>3, <3>4 DEF RunInv
  <2> QED BY <1>5, <2>1, <2>2 DEF Closing
<1>6. CASE Sending
  <2>1. "inventory" \in Exec!RS!ReplyTypes
    BY DEF Exec!RS!ReplyTypes, Exec!RS!LiveReplies
  <2>2. /\ stream' = Append(stream, entry) /\ UNCHANGED <<pc, result>>
        /\ spc = "encode" /\ Sends("inventory") /\ mainPc # "exit"
    BY <1>6 DEF Sending, SendEntry, Exec!Running
  <2>3. Len(stream') = Len(stream) + 1 /\ Len(stream) \in Nat
    BY <1>0, <2>2 DEF Inv, TypeOK
  <2>4. Called' /\ Quiet'
    BY <2>2, <2>3 DEF Sends, elsewhere, RunInv, Called, Quiet
  <2>5. Received'
    BY <2>1, <2>2, <2>3, ReplySent DEF Sends, RunInv, Received
  <2> QED BY <1>0, <2>4, <2>5 DEF RunInv
<1>7. CASE Winding
  BY <1>0, <1>7, QuietStep DEF Winding, Next, Sender, ReportEncodeError,
     CancelProvider, SenderExit
<1>8. CASE Returning
  <2>1. /\ pc = "done" /\ mainPc = "dispatch" /\ mainPc' = "stop"
        /\ opErr' = (result # "nil") /\ report' = Exec!NoReport
        /\ UNCHANGED <<pc, stream, result, op, emitting, messages, replies>>
    BY <1>8 DEF Returning, Exec!Goto, ErrorReturned, vars, elsewhere
  <2>2. Called' /\ Quiet' BY <2>1 DEF RunInv, Called, Before, After, Quiet
  <2>3. Received' BY <2>1, NothingSent DEF RunInv, Received
  <2> QED BY <1>0, <2>2, <2>3 DEF RunInv
<1>9. CASE UNCHANGED allVars
  <2>1. UNCHANGED <<pc, stream, result, op, emitting, messages, replies, mainPc,
                    opErr, report>>
    BY <1>9 DEF allVars, vars, elsewhere
  <2>2. Called' /\ Quiet' BY <2>1 DEF RunInv, Called, Quiet
  <2>3. Received' BY <2>1, NothingSent DEF RunInv, Received
  <2> QED BY <1>0, <2>2, <2>3 DEF RunInv
<1> QED BY <1>1, <1>2, <1>3, <1>4, <1>5, <1>6, <1>7, <1>8, <1>9
        DEF RunNext, Ended

\* The invariant of a run holds in every state of it.
LEMMA RunInvariant == RunSpec => []RunInv
  BY RunInitInv, RunNextInv, PTL DEF RunSpec

(***************************************************************************)
(* A driver that reads success has read every entry of a listing that      *)
(* ended well, whatever the sampler, the signal handler and a failing      *)
(* close wrote in between.                                                 *)
(***************************************************************************)
THEOREM ImportsWhole == RunSpec => []DriverImportsWhole
<1>1. RunInv => DriverImportsWhole
  BY DEF RunInv, Received, Entries, DriverImportsWhole, Inv, TypeOK, Phases,
         Placed, Reported, Bad
<1> QED BY <1>1, RunInvariant, PTL

\* An entry, or the warning about the close, is within the bound of Main.
LEMMA MessageFits ==
    ASSUME RunInv, SendEntry \/ CloseInventory
    PROVE  messages < MaxMessages
<1>0. pc # "done"
  BY DEF RunInv, Inv, TypeOK, Phases, Reported, Bad, SendEntry, CloseInventory
<1>1. messages <= Len(stream) /\ messages \in Nat
  BY <1>0 DEF RunInv, Quiet, Inv, TypeOK
<1>2. Len(stream) <= size
  <2>1. CASE stream = <<>> BY <2>1 DEF RunInv, Inv, TypeOK
  <2>2. CASE stream # <<>>
    <3>1. Len(stream) \in DOMAIN stream BY <2>2 DEF RunInv, Inv, TypeOK
    <3>2. stream[Len(stream)] \in 1..size BY <3>1 DEF RunInv, Inv, TypeOK
    <3>3. stream[Len(stream)] = Len(stream)
      BY <3>1 DEF RunInv, Inv, StreamIsPrefix
    <3> QED BY <3>2, <3>3 DEF RunInv, Inv, TypeOK
  <2> QED BY <2>1, <2>2
<1>3. size <= MaxEntries /\ size \in Nat
  BY MaxEntriesAssumption DEF RunInv, Inv, TypeOK
<1> QED
  BY <1>1, <1>2, <1>3, MessagesAssumption, MaxEntriesAssumption
  DEF RunInv, Inv, TypeOK

\* Every step of a run is a step of Main, or hidden from it.
LEMMA RunStepRefines == RunInv /\ [RunNext]_allVars => [Exec!Next]_(Exec!vars)
<1> SUFFICES ASSUME RunInv, [RunNext]_allVars PROVE [Exec!Next]_(Exec!vars)
  OBVIOUS
<1> USE DEF Exec!vars, Exec!listener, Exec!sampler, Exec!signaller,
            Exec!operation
<1>1. CASE Around BY <1>1 DEF Around, Exec!Next
<1>2. CASE Quietly BY <1>2 DEF Quietly, elsewhere
<1>3. CASE Closing /\ Sends("warning")
  <2>1. messages < MaxMessages BY <1>3, MessageFits DEF Closing
  <2>2. Exec!Idle BY <1>3 DEF Closing, Exec!Idle, RunInv, Quiet
  <2>3. Exec!SendMessage BY <1>3, <2>1, <2>2 DEF Sends, elsewhere, Exec!SendMessage
  <2> QED BY <2>3 DEF Exec!Next, Exec!Operation
<1>4. CASE Sending
  <2>1. messages < MaxMessages BY <1>4, MessageFits DEF Sending
  <2>2. mainPc = "dispatch"
    <3>1. pc \in {"list", "join"}
      BY <1>4 DEF Sending, SendEntry, RunInv, Inv, TypeOK, Phases, Placed,
         Reported, Bad
    <3> QED BY <1>4, <3>1 DEF Sending, Exec!Running, RunInv, Called
  <2>3. Exec!Idle /\ op = "inventory" BY <2>2 DEF Exec!Idle, RunInv, Quiet
  <2>4. Exec!SendMessage
    BY <1>4, <2>1, <2>3 DEF Sending, Sends, elsewhere, Exec!SendMessage
  <2> QED BY <2>4 DEF Exec!Next, Exec!Operation
<1>5. CASE Returning
  <2>1. Exec!Idle BY <1>5 DEF Returning, Exec!Goto, Exec!Idle, RunInv, Quiet
  <2>2. <<ErrorReturned, Exec!NoReport>> \in Exec!Results(op)
    BY DEF ErrorReturned, Exec!Results, RunInv, Quiet
  <2>3. \E r \in Exec!Results(op) : opErr' = r[1] /\ report' = r[2]
    BY <1>5, <2>2 DEF Returning
  <2>4. Exec!dispatch
    BY <1>5, <2>1, <2>3 DEF Returning, elsewhere, Exec!dispatch
  <2> QED BY <2>4 DEF Exec!Next, Exec!Operation
<1>6. CASE UNCHANGED allVars BY <1>6 DEF allVars, elsewhere
<1> QED BY <1>1, <1>2, <1>3, <1>4, <1>5, <1>6
        DEF RunNext, Listing, Pushing, ListReturning, Closing, Winding, Ended

(***************************************************************************)
(* An inventory run is a run of Main: listInventory sends only between its *)
(* call and its return, although its goroutine may outlive it, and returns *)
(* what dispatch may return. This is the safety of ImplementsMain.         *)
(***************************************************************************)
THEOREM RunsMain == RunSpec => Exec!Spec
<1>1. RunInit => Exec!Init BY DEF RunInit
<1> QED BY <1>1, RunStepRefines, RunInvariant, PTL DEF RunSpec, Exec!Spec
=============================================================================
