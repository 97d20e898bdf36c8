-------------------------- MODULE OperationsProofs --------------------------
(***************************************************************************)
(* Proofs about the operations on stores, for any stores, passphrases,     *)
(* snapshots and number of jobs.                                           *)
(*                                                                         *)
(* The code that is left is a suffix of the code of the operation, so that *)
(* its length is the program counter (Control). What is open is on two     *)
(* stacks of closes, everything above what it needs, and at each length    *)
(* what is still to be acquired fits on top (Frames); the length also says *)
(* which repositories are open (Repositories). Achieved says what the      *)
(* operation has done at each length, and what its loop has still to do:   *)
(* that is what a success is made of.                                      *)
(***************************************************************************)
EXTENDS Operations, FiniteSetTheorems, TLAPS

Ops == {"create", "backup", "check", "restore", "sync", "test_store",
        "test_source", "test_destination"}

-----------------------------------------------------------------------------
(* Codes and what is left of them *)

\* s is what is left of t.
LeftOf(s, t) ==
    /\ s \in Seq(StepType) /\ Len(s) <= Len(t)
    /\ \A i \in 1..Len(s) : s[i] = t[Len(t) - Len(s) + i]

\* The next step, and what is left after it.
LEMMA LeftOfTail ==
    ASSUME NEW s, NEW t \in Seq(StepType), LeftOf(s, t), s # <<>>
    PROVE  /\ Len(s) \in 1..Len(t) /\ Head(s) = t[Len(t) - Len(s) + 1]
           /\ LeftOf(Tail(s), t) /\ Len(Tail(s)) = Len(s) - 1
<1>1. s \in Seq(StepType) /\ Len(s) \in Nat /\ Len(s) # 0 /\ Len(t) \in Nat
  BY DEF LeftOf
<1>2. /\ Tail(s) \in Seq(StepType) /\ Len(Tail(s)) = Len(s) - 1
      /\ \A i \in 1..(Len(s) - 1) : Tail(s)[i] = s[i + 1]
      /\ Head(s) = s[1]
  BY <1>1
<1>3. Len(s) \in 1..Len(t) /\ Head(s) = t[Len(t) - Len(s) + 1]
  BY <1>1, <1>2 DEF LeftOf
<1>4. ASSUME NEW i \in 1..(Len(s) - 1)
      PROVE  Tail(s)[i] = t[Len(t) - (Len(s) - 1) + i]
  <2>1. i + 1 \in 1..Len(s) BY <1>1
  <2>2. s[i + 1] = t[Len(t) - Len(s) + (i + 1)] BY <2>1 DEF LeftOf
  <2> QED BY <1>1, <1>2, <2>2
<1>5. LeftOf(Tail(s), t) BY <1>1, <1>2, <1>3, <1>4 DEF LeftOf
<1> QED BY <1>2, <1>3, <1>5

\* Everything is left at the beginning.
LEMMA LeftOfItself == ASSUME NEW t \in Seq(StepType) PROVE LeftOf(t, t)
  BY DEF LeftOf

\* The step that acquires a resource is a step.
LEMMA AcquireType ==
    \A r \in Resources : /\ Acquire(r) \in StepType /\ Try(r) \in StepType
                         /\ Counted(Acquire(r)) \in StepType
  BY DEF Acquire, Try, Counted, StepType

\* So is a call.
LEMMA CallType ==
    \A c \in Calls : Call(c) \in StepType /\ Counted(Call(c)) \in StepType
  BY DEF Call, Counted, StepType

\* So are the other steps.
LEMMA OtherType ==
    /\ Repo("source") \in StepType /\ Repo("target") \in StepType
    /\ Shut("source") \in StepType /\ Locate \in StepType /\ Each \in StepType
  BY DEF Repo, Shut, Locate, Each, StepType

\* The code of every operation is a sequence of steps.
LEMMA CodeTypes ==
    /\ CreateCode \in Seq(StepType) /\ BackupCode \in Seq(StepType)
    /\ CheckCode \in Seq(StepType) /\ RestoreCode \in Seq(StepType)
    /\ SyncCode \in Seq(StepType) /\ TestStoreCode \in Seq(StepType)
    /\ TestSourceCode \in Seq(StepType) /\ TestDestinationCode \in Seq(StepType)
    /\ CheckBody \in Seq(StepType) /\ SyncBody \in Seq(StepType)
<1> USE AcquireType, CallType, OtherType DEF Resources, Calls
<1>1. CreateCode \in Seq(StepType) BY DEF CreateCode
<1>2. BackupCode \in Seq(StepType) BY DEF BackupCode
<1>3. CheckCode \in Seq(StepType) BY DEF CheckCode
<1>4. RestoreCode \in Seq(StepType) BY DEF RestoreCode
<1>5. SyncCode \in Seq(StepType) BY DEF SyncCode
<1>6. TestStoreCode \in Seq(StepType) BY DEF TestStoreCode
<1>7. TestSourceCode \in Seq(StepType) BY DEF TestSourceCode
<1>8. TestDestinationCode \in Seq(StepType) BY DEF TestDestinationCode
<1>9. CheckBody \in Seq(StepType) BY DEF CheckBody
<1>10. SyncBody \in Seq(StepType) BY DEF SyncBody
<1> QED BY <1>1, <1>2, <1>3, <1>4, <1>5, <1>6, <1>7, <1>8, <1>9, <1>10

\* The code of an operation, whichever it is, is a sequence of steps.
LEMMA CodeType == \A op \in Ops : /\ Code(op) \in Seq(StepType)
                                  /\ Body(op) \in Seq(StepType)
  BY CodeTypes DEF Code, Body, Ops

(***************************************************************************)
(* XAt(n, h): with n steps of X left, the next is h.                       *)
(***************************************************************************)
CreateAt(n, h) ==
    \/ n = 5 /\ h = Acquire("source")
    \/ n = 4 /\ h = Call("compression")
    \/ n = 3 /\ h = Call("encryption")
    \/ n = 2 /\ h = Call("serialize")
    \/ n = 1 /\ h = Call("Create")

BackupAt(n, h) ==
    \/ n = 9 /\ h = Acquire("importer")
    \/ n = 8 /\ h = Acquire("target")
    \/ n = 7 /\ h = Repo("target")
    \/ n = 6 /\ h = Acquire("snap")
    \/ n = 5 /\ h = Call("NewSource")
    \/ n = 4 /\ h = Call("Match")
    \/ n = 3 /\ h = Try("parent")
    \/ n = 2 /\ h = Call("Backup")
    \/ n = 1 /\ h = Call("Commit")

CheckAt(n, h) ==
    \/ n = 5 /\ h = Acquire("source")
    \/ n = 4 /\ h = Repo("source")
    \/ n = 3 /\ h = Locate
    \/ n = 2 /\ h = Acquire("cache")
    \/ n = 1 /\ h = Each

RestoreAt(n, h) ==
    \/ n = 6 /\ h = Acquire("exporter")
    \/ n = 5 /\ h = Acquire("source")
    \/ n = 4 /\ h = Repo("source")
    \/ n = 3 /\ h = Locate
    \/ n = 2 /\ h = Acquire("snap")
    \/ n = 1 /\ h = Call("Export")

SyncAt(n, h) ==
    \/ n = 7 /\ h = Acquire("source")
    \/ n = 6 /\ h = Repo("source")
    \/ n = 5 /\ h = Acquire("target")
    \/ n = 4 /\ h = Repo("target")
    \/ n = 3 /\ h = Call("ListSnapshots")
    \/ n = 2 /\ h = Locate
    \/ n = 1 /\ h = Each

TestStoreAt(n, h) ==
    \/ n = 3 /\ h = Acquire("source")
    \/ n = 2 /\ h = Repo("source")
    \/ n = 1 /\ h = Shut("source")

TestSourceAt(n, h) ==
    \/ n = 2 /\ h = Acquire("importer")
    \/ n = 1 /\ h = Call("Ping")

TestDestinationAt(n, h) ==
    \/ n = 2 /\ h = Acquire("exporter")
    \/ n = 1 /\ h = Call("Ping")

CheckBodyAt(n, h) ==
    \/ n = 2 /\ h = Acquire("snap")
    \/ n = 1 /\ h = Counted(Call("Check"))

SyncBodyAt(n, h) ==
    \/ n = 6 /\ h = Counted(Acquire("srcSnap"))
    \/ n = 5 /\ h = Counted(Acquire("dstSnap"))
    \/ n = 4 /\ h = Counted(Call("Match"))
    \/ n = 3 /\ h = Counted(Acquire("parent"))
    \/ n = 2 /\ h = Counted(Call("FilesystemWithCache"))
    \/ n = 1 /\ h = Counted(Call("Synchronize"))

\* The steps of create and how many are left at each.
LEMMA CreateSteps ==
    ASSUME NEW s, LeftOf(s, CreateCode), s # <<>>
    PROVE  CreateAt(Len(s), Head(s))
<1>1. /\ Len(CreateCode) = 5
      /\ CreateCode[1] = Acquire("source")
      /\ CreateCode[2] = Call("compression")
      /\ CreateCode[3] = Call("encryption")
      /\ CreateCode[4] = Call("serialize")
      /\ CreateCode[5] = Call("Create")
  BY DEF CreateCode
<1>2. \A n \in 1..5 : CreateAt(n, CreateCode[5 - n + 1]) BY <1>1 DEF CreateAt
<1>3. Len(s) \in 1..5 /\ Head(s) = CreateCode[5 - Len(s) + 1]
  BY <1>1, LeftOfTail, CodeTypes
<1> QED BY <1>2, <1>3

\* The steps of backup and how many are left at each.
LEMMA BackupSteps ==
    ASSUME NEW s, LeftOf(s, BackupCode), s # <<>>
    PROVE  BackupAt(Len(s), Head(s))
<1>1. /\ Len(BackupCode) = 9
      /\ BackupCode[1] = Acquire("importer")
      /\ BackupCode[2] = Acquire("target")
      /\ BackupCode[3] = Repo("target")
      /\ BackupCode[4] = Acquire("snap")
      /\ BackupCode[5] = Call("NewSource")
      /\ BackupCode[6] = Call("Match")
      /\ BackupCode[7] = Try("parent")
      /\ BackupCode[8] = Call("Backup")
      /\ BackupCode[9] = Call("Commit")
  BY DEF BackupCode
<1>2. \A n \in 1..9 : BackupAt(n, BackupCode[9 - n + 1]) BY <1>1 DEF BackupAt
<1>3. Len(s) \in 1..9 /\ Head(s) = BackupCode[9 - Len(s) + 1]
  BY <1>1, LeftOfTail, CodeTypes
<1> QED BY <1>2, <1>3

\* The steps of check and how many are left at each.
LEMMA CheckSteps ==
    ASSUME NEW s, LeftOf(s, CheckCode), s # <<>>
    PROVE  CheckAt(Len(s), Head(s))
<1>1. /\ Len(CheckCode) = 5
      /\ CheckCode[1] = Acquire("source")
      /\ CheckCode[2] = Repo("source")
      /\ CheckCode[3] = Locate
      /\ CheckCode[4] = Acquire("cache")
      /\ CheckCode[5] = Each
  BY DEF CheckCode
<1>2. \A n \in 1..5 : CheckAt(n, CheckCode[5 - n + 1]) BY <1>1 DEF CheckAt
<1>3. Len(s) \in 1..5 /\ Head(s) = CheckCode[5 - Len(s) + 1]
  BY <1>1, LeftOfTail, CodeTypes
<1> QED BY <1>2, <1>3

\* The steps of restore and how many are left at each.
LEMMA RestoreSteps ==
    ASSUME NEW s, LeftOf(s, RestoreCode), s # <<>>
    PROVE  RestoreAt(Len(s), Head(s))
<1>1. /\ Len(RestoreCode) = 6
      /\ RestoreCode[1] = Acquire("exporter")
      /\ RestoreCode[2] = Acquire("source")
      /\ RestoreCode[3] = Repo("source")
      /\ RestoreCode[4] = Locate
      /\ RestoreCode[5] = Acquire("snap")
      /\ RestoreCode[6] = Call("Export")
  BY DEF RestoreCode
<1>2. \A n \in 1..6 : RestoreAt(n, RestoreCode[6 - n + 1]) BY <1>1 DEF RestoreAt
<1>3. Len(s) \in 1..6 /\ Head(s) = RestoreCode[6 - Len(s) + 1]
  BY <1>1, LeftOfTail, CodeTypes
<1> QED BY <1>2, <1>3

\* The steps of sync and how many are left at each.
LEMMA SyncSteps ==
    ASSUME NEW s, LeftOf(s, SyncCode), s # <<>>
    PROVE  SyncAt(Len(s), Head(s))
<1>1. /\ Len(SyncCode) = 7
      /\ SyncCode[1] = Acquire("source")
      /\ SyncCode[2] = Repo("source")
      /\ SyncCode[3] = Acquire("target")
      /\ SyncCode[4] = Repo("target")
      /\ SyncCode[5] = Call("ListSnapshots")
      /\ SyncCode[6] = Locate
      /\ SyncCode[7] = Each
  BY DEF SyncCode
<1>2. \A n \in 1..7 : SyncAt(n, SyncCode[7 - n + 1]) BY <1>1 DEF SyncAt
<1>3. Len(s) \in 1..7 /\ Head(s) = SyncCode[7 - Len(s) + 1]
  BY <1>1, LeftOfTail, CodeTypes
<1> QED BY <1>2, <1>3

\* The steps of the test of a store and how many are left at each.
LEMMA TestStoreSteps ==
    ASSUME NEW s, LeftOf(s, TestStoreCode), s # <<>>
    PROVE  TestStoreAt(Len(s), Head(s))
<1>1. /\ Len(TestStoreCode) = 3
      /\ TestStoreCode[1] = Acquire("source")
      /\ TestStoreCode[2] = Repo("source")
      /\ TestStoreCode[3] = Shut("source")
  BY DEF TestStoreCode
<1>2. \A n \in 1..3 : TestStoreAt(n, TestStoreCode[3 - n + 1]) BY <1>1 DEF TestStoreAt
<1>3. Len(s) \in 1..3 /\ Head(s) = TestStoreCode[3 - Len(s) + 1]
  BY <1>1, LeftOfTail, CodeTypes
<1> QED BY <1>2, <1>3

\* The steps of the test of a source and how many are left at each.
LEMMA TestSourceSteps ==
    ASSUME NEW s, LeftOf(s, TestSourceCode), s # <<>>
    PROVE  TestSourceAt(Len(s), Head(s))
<1>1. /\ Len(TestSourceCode) = 2
      /\ TestSourceCode[1] = Acquire("importer")
      /\ TestSourceCode[2] = Call("Ping")
  BY DEF TestSourceCode
<1>2. \A n \in 1..2 : TestSourceAt(n, TestSourceCode[2 - n + 1])
  BY <1>1 DEF TestSourceAt
<1>3. Len(s) \in 1..2 /\ Head(s) = TestSourceCode[2 - Len(s) + 1]
  BY <1>1, LeftOfTail, CodeTypes
<1> QED BY <1>2, <1>3

\* The steps of the test of a destination and how many are left at each.
LEMMA TestDestinationSteps ==
    ASSUME NEW s, LeftOf(s, TestDestinationCode), s # <<>>
    PROVE  TestDestinationAt(Len(s), Head(s))
<1>1. /\ Len(TestDestinationCode) = 2
      /\ TestDestinationCode[1] = Acquire("exporter")
      /\ TestDestinationCode[2] = Call("Ping")
  BY DEF TestDestinationCode
<1>2. \A n \in 1..2 : TestDestinationAt(n, TestDestinationCode[2 - n + 1])
  BY <1>1 DEF TestDestinationAt
<1>3. Len(s) \in 1..2 /\ Head(s) = TestDestinationCode[2 - Len(s) + 1]
  BY <1>1, LeftOfTail, CodeTypes
<1> QED BY <1>2, <1>3

\* The steps of an iteration of check.
LEMMA CheckBodySteps ==
    ASSUME NEW s, LeftOf(s, CheckBody), s # <<>>
    PROVE  CheckBodyAt(Len(s), Head(s))
<1>1. /\ Len(CheckBody) = 2
      /\ CheckBody[1] = Acquire("snap")
      /\ CheckBody[2] = Counted(Call("Check"))
  BY DEF CheckBody
<1>2. \A n \in 1..2 : CheckBodyAt(n, CheckBody[2 - n + 1]) BY <1>1 DEF CheckBodyAt
<1>3. Len(s) \in 1..2 /\ Head(s) = CheckBody[2 - Len(s) + 1]
  BY <1>1, LeftOfTail, CodeTypes
<1> QED BY <1>2, <1>3

\* The steps of an iteration of sync.
LEMMA SyncBodySteps ==
    ASSUME NEW s, LeftOf(s, SyncBody), s # <<>>
    PROVE  SyncBodyAt(Len(s), Head(s))
<1>1. /\ Len(SyncBody) = 6
      /\ SyncBody[1] = Counted(Acquire("srcSnap"))
      /\ SyncBody[2] = Counted(Acquire("dstSnap"))
      /\ SyncBody[3] = Counted(Call("Match"))
      /\ SyncBody[4] = Counted(Acquire("parent"))
      /\ SyncBody[5] = Counted(Call("FilesystemWithCache"))
      /\ SyncBody[6] = Counted(Call("Synchronize"))
  BY DEF SyncBody
<1>2. \A n \in 1..6 : SyncBodyAt(n, SyncBody[6 - n + 1]) BY <1>1 DEF SyncBodyAt
<1>3. Len(s) \in 1..6 /\ Head(s) = SyncBody[6 - Len(s) + 1]
  BY <1>1, LeftOfTail, CodeTypes
<1> QED BY <1>2, <1>3

\* What the steps of an operation are, and what is left when they are reached.
LEMMA CodeStep ==
    ASSUME NEW op \in Ops, NEW s, LeftOf(s, Code(op)), s # <<>>
    PROVE  /\ Head(s).onError \in {"return", "go_on"}
           /\ Head(s).kind \notin {"acquire", "closerepo"} =>
                 Head(s).onError = "return"
           /\ Head(s).kind = "closerepo" =>
                 op = "test_store" /\ Len(s) = 1 /\ Head(s).what = "source"
           /\ Head(s).kind = "each" =>
                 Len(s) = 1 /\ op \in {"check", "sync"}
           /\ Head(s).kind = "locate" =>
                 \/ op \in {"check", "restore"} /\ Len(s) = 3
                 \/ op = "sync" /\ Len(s) = 2
           /\ Head(s).kind = "openrepo" =>
                 \/ op \in {"check", "restore"} /\ Len(s) = 4 /\ Head(s).what = "source"
                 \/ op = "backup" /\ Len(s) = 7 /\ Head(s).what = "target"
                 \/ op = "sync" /\ Len(s) = 6 /\ Head(s).what = "source"
                 \/ op = "sync" /\ Len(s) = 4 /\ Head(s).what = "target"
                 \/ op = "test_store" /\ Len(s) = 2 /\ Head(s).what = "source"
           /\ Head(s).kind = "call" =>
                 /\ Head(s).what = "Create" => op = "create" /\ Len(s) = 1
                 /\ Head(s).what = "Commit" => op = "backup" /\ Len(s) = 1
                 /\ Head(s).what = "Export" => op = "restore" /\ Len(s) = 1
                 /\ Head(s).what = "ListSnapshots" => op = "sync" /\ Len(s) = 3
                 /\ Head(s).what \notin {"Check", "Synchronize"}
<1> USE DEF Acquire, Try, Call, Repo, Shut, Locate, Each
<1>1. CASE op = "create" BY <1>1, CreateSteps DEF CreateAt, Code
<1>2. CASE op = "backup" BY <1>2, BackupSteps DEF BackupAt, Code
<1>3. CASE op = "check" BY <1>3, CheckSteps DEF CheckAt, Code
<1>4. CASE op = "restore" BY <1>4, RestoreSteps DEF RestoreAt, Code
<1>5. CASE op = "sync" BY <1>5, SyncSteps DEF SyncAt, Code
<1>6. CASE op = "test_store" BY <1>6, TestStoreSteps DEF TestStoreAt, Code
<1>7. CASE op = "test_source" BY <1>7, TestSourceSteps DEF TestSourceAt, Code
<1>8. CASE op = "test_destination"
  BY <1>8, TestDestinationSteps DEF TestDestinationAt, Code
<1> QED BY <1>1, <1>2, <1>3, <1>4, <1>5, <1>6, <1>7, <1>8 DEF Ops

\* A counted step is the step with another answer to its errors.
LEMMA CountedStep ==
    /\ \A r : Counted(Acquire(r)) = [kind |-> "acquire", what |-> r, onError |-> "count"]
    /\ \A c : Counted(Call(c)) = [kind |-> "call", what |-> c, onError |-> "count"]
  BY DEF Acquire, Call, Counted

\* What the steps of a loop's body are, and how they treat an error.
LEMMA BodyStep ==
    ASSUME NEW op \in {"check", "sync"}, NEW s, LeftOf(s, Body(op)), s # <<>>
    PROVE  /\ Head(s).kind \in {"acquire", "call"}
           /\ Head(s).onError = "return" =>
                 op = "check" /\ Len(s) = 2
           /\ Head(s).onError # "go_on"
           /\ Head(s).kind = "call" =>
                 /\ Head(s).what = "Check" => op = "check" /\ Len(s) = 1
                 /\ Head(s).what = "Synchronize" => op = "sync" /\ Len(s) = 1
                 /\ Head(s).what = "Match" => op = "sync" /\ Len(s) = 4
                 /\ Head(s).what \notin {"Create", "Commit", "Export", "ListSnapshots"}
           /\ Len(s) = 1 =>
                 /\ Head(s).kind = "call"
                 /\ Head(s).what = IF op = "check" THEN "Check" ELSE "Synchronize"
<1>1. CASE op = "check"
  BY <1>1, CheckBodySteps DEF CheckBodyAt, Body, Acquire, Call, Counted
<1>2. CASE op = "sync"
  <2>1. Body(op) = SyncBody BY <1>2 DEF Body
  <2>2. \/ Len(s) = 6 /\ Head(s) = Counted(Acquire("srcSnap"))
        \/ Len(s) = 5 /\ Head(s) = Counted(Acquire("dstSnap"))
        \/ Len(s) = 4 /\ Head(s) = Counted(Call("Match"))
        \/ Len(s) = 3 /\ Head(s) = Counted(Acquire("parent"))
        \/ Len(s) = 2 /\ Head(s) = Counted(Call("FilesystemWithCache"))
        \/ Len(s) = 1 /\ Head(s) = Counted(Call("Synchronize"))
    BY <2>1, SyncBodySteps DEF SyncBodyAt
  <2>3. Head(s).kind \in {"acquire", "call"} BY <2>2, CountedStep
  <2>4. Head(s).onError = "count" BY <2>2, CountedStep
  <2>5. Len(s) = 1 => Head(s).kind = "call" /\ Head(s).what = "Synchronize"
    BY <2>2, CountedStep
  <2>6. Head(s).kind = "call" =>
                 /\ Head(s).what = "Check" => FALSE
                 /\ Head(s).what = "Synchronize" => Len(s) = 1
                 /\ Head(s).what = "Match" => Len(s) = 4
                 /\ Head(s).what \notin {"Create", "Commit", "Export", "ListSnapshots"}
    BY <2>2, CountedStep
  <2> QED BY <1>2, <2>3, <2>4, <2>5, <2>6
<1> QED BY <1>1, <1>2

\* A match without a parent goes on with the last step.
LEMMA LeftOfLast ==
    ASSUME NEW s, NEW t \in Seq(StepType), LeftOf(s, t), s # <<>>
    PROVE  LeftOf(<<Last(s)>>, t)
<1>1. /\ s \in Seq(StepType) /\ Len(s) \in Nat /\ Len(s) >= 1
      /\ Len(t) \in Nat /\ Len(s) <= Len(t)
  BY DEF LeftOf
<1>2. Last(s) = s[Len(s)] /\ Len(s) \in 1..Len(s) BY <1>1 DEF Last
<1>3. Last(s) \in StepType BY <1>1, <1>2
<1>4. Last(s) = t[Len(t)] BY <1>1, <1>2 DEF LeftOf
<1>5. Len(<<Last(s)>>) = 1 /\ <<Last(s)>>[1] = Last(s) /\ <<Last(s)>> \in Seq(StepType)
  BY <1>3
<1>6. Len(t) - 1 + 1 = Len(t) BY <1>1
<1> QED BY <1>1, <1>4, <1>5, <1>6 DEF LeftOf

-----------------------------------------------------------------------------
(* Control *)

\* The operation has not returned.
Live == mode \in {"run", "iterate", "next"}

(***************************************************************************)
(* What is left is left of the code of the job, and nothing is left when   *)
(* it has returned; the loop is entered from the step that heads it.       *)
(***************************************************************************)
Control ==
    /\ mode \in {"idle", "run", "iterate", "next", "return"}
    /\ (mode # "idle" \/ outcome = "ok") => job \in Payloads
    /\ Live => outcome = "none" /\ LeftOf(code, Code(job.op))
    /\ ~Live => code = <<>>
    /\ mode # "iterate" => body = <<>>
    /\ mode \in {"iterate", "next"} =>
          Len(code) = 1 /\ job.op \in {"check", "sync"}
    /\ mode = "iterate" => LeftOf(body, Body(job.op))

\* What a payload holds, for each operation.
LEMMA PayloadType ==
    ASSUME NEW p \in Payloads
    PROVE  /\ p.op \in Ops
           /\ p.op \in {"create", "check", "restore", "sync", "test_store"} =>
                 p.source \in Connectors
           /\ p.op \in {"backup", "sync"} => p.target \in Connectors
           /\ p.op = "create" => p.no_encryption \in BOOLEAN
  BY DEF Payloads, Ops

\* What a step can do to the control of the process.
Moves ==
    /\ mode \in {"run", "iterate"} /\ Steps # <<>>
    /\ UNCHANGED job
    /\ \/ GoOn \/ Fail \/ Return("error") \/ Return("panic")
       \/ /\ Iterating
          /\ body' = <<Last(body)>> /\ UNCHANGED <<code, mode, outcome>>

\* A step that moves along the code leaves a suffix of it.
LEMMA MovesControl == ASSUME Control, Moves PROVE Control'
<1>1. /\ job \in Payloads /\ job' = job /\ job.op \in Ops
      /\ Code(job.op) \in Seq(StepType) /\ Body(job.op) \in Seq(StepType)
  BY PayloadType, CodeType DEF Control, Moves
<1>2. CASE mode = "run"
  <2>1. LeftOf(code, Code(job.op)) /\ code # <<>> /\ outcome = "none"
    BY <1>2 DEF Control, Live, Moves, Steps, Iterating
  <2>2. CASE GoOn
    <3>1. LeftOf(Tail(code), Code(job.op)) BY <1>1, <2>1, LeftOfTail
    <3> QED BY <1>1, <1>2, <2>1, <2>2, <3>1 DEF Control, Live, GoOn, Iterating
  <2>3. CASE Return("error") \/ Return("panic")
    BY <1>1, <2>3 DEF Control, Live, Return
  <2>4. CASE Fail
    <3>1. Head(code).onError # "count" BY <1>1, <2>1, CodeStep
    <3> QED BY <1>2, <2>2, <2>3, <2>4, <3>1 DEF Fail, Steps, Iterating
  <2> QED BY <1>2, <2>2, <2>3, <2>4 DEF Moves, Iterating
<1>3. CASE mode = "iterate"
  <2>1. /\ LeftOf(code, Code(job.op)) /\ outcome = "none" /\ Len(code) = 1
        /\ job.op \in {"check", "sync"}
        /\ LeftOf(body, Body(job.op)) /\ body # <<>>
    BY <1>3 DEF Control, Live, Moves, Steps, Iterating
  <2>2. CASE GoOn
    <3>1. LeftOf(Tail(body), Body(job.op)) BY <1>1, <2>1, LeftOfTail
    <3> QED BY <1>1, <1>3, <2>1, <2>2, <3>1 DEF Control, Live, GoOn, Iterating
  <2>3. CASE Return("error") \/ Return("panic")
    BY <1>1, <2>3 DEF Control, Live, Return
  <2>4. CASE Fail
    <3>1. Head(body).onError # "go_on" BY <1>1, <2>1, BodyStep
    <3> QED
      BY <1>1, <1>3, <2>1, <2>3, <2>4, <3>1
      DEF Fail, Steps, Iterating, Control, Live
  <2>5. CASE body' = <<Last(body)>> /\ UNCHANGED <<code, mode, outcome>>
    <3>1. LeftOf(<<Last(body)>>, Body(job.op)) BY <1>1, <2>1, LeftOfLast
    <3> QED BY <1>1, <1>3, <2>1, <2>5, <3>1 DEF Control, Live
  <2> QED BY <2>2, <2>3, <2>4, <2>5 DEF Moves
<1> QED BY <1>2, <1>3 DEF Moves
\* The actions that are steps of the operation or of an iteration.
StepAction ==
    \/ AcquireStep \/ CallStep \/ OpenRepo \/ CloseRepo \/ StoreCreate \/ Commit
    \/ ListSnapshots \/ LocateSnapshotIDs \/ Export \/ Check \/ Synchronize

\* Every step of the code or the body moves along it.
LEMMA StepMoves == ASSUME StepAction PROVE Moves
<1> USE DEF Moves, AtCall, At
<1>1. CASE AcquireStep BY <1>1 DEF AcquireStep
<1>2. CASE CallStep BY <1>2 DEF CallStep
<1>3. CASE OpenRepo BY <1>3 DEF OpenRepo
<1>4. CASE StoreCreate BY <1>4 DEF StoreCreate
<1>5. CASE Commit BY <1>5 DEF Commit
<1>6. CASE ListSnapshots BY <1>6 DEF ListSnapshots
<1>7. CASE LocateSnapshotIDs BY <1>7 DEF LocateSnapshotIDs
<1>8. CASE Export BY <1>8 DEF Export
<1>9. CASE Check BY <1>9 DEF Check
<1>10. CASE Synchronize BY <1>10 DEF Synchronize
<1>11. CASE CloseRepo BY <1>11 DEF CloseRepo
<1> QED
  BY <1>1, <1>2, <1>3, <1>4, <1>5, <1>6, <1>7, <1>8, <1>9, <1>10, <1>11
  DEF StepAction

\* The loop is headed by a step of the operation, not of an iteration.
LEMMA AtEach ==
    ASSUME Control, At("each")
    PROVE  /\ mode = "run" /\ Len(code) = 1 /\ job.op \in {"check", "sync"}
           /\ code # <<>> /\ LeftOf(code, Code(job.op)) /\ outcome = "none"
<1>1. job \in Payloads /\ job.op \in Ops
  BY PayloadType DEF Control, At
<1>2. CASE mode = "iterate"
  BY <1>1, <1>2, BodyStep DEF Control, At, Steps, Iterating
<1>3. CASE mode = "run"
  BY <1>1, <1>3, CodeStep DEF Control, At, Steps, Iterating, Live
<1> QED BY <1>2, <1>3 DEF At

\* The code left stays a suffix, through failures and kills too.
LEMMA NextControl == ASSUME Control, Next PROVE Control'
<1>1. CASE Start
  <2>1. job' \in Payloads /\ job'.op \in Ops BY <1>1, PayloadType DEF Start
  <2>2. LeftOf(Code(job'.op), Code(job'.op)) BY <2>1, CodeType, LeftOfItself
  <2> QED BY <1>1, <2>1, <2>2 DEF Start, Control, Live
<1>2. CASE Kill BY <1>2 DEF Kill, Control, Live
<1>3. CASE StepAction BY <1>3, StepMoves, MovesControl
<1>4. CASE Iterate
  <2>1. /\ mode = "run" /\ Len(code) = 1 /\ job.op \in {"check", "sync"}
        /\ job' = job /\ code' = code /\ outcome' = outcome
        /\ \/ mode' = mode /\ body' = body
           \/ mode' = "iterate" /\ body' = Body(job.op)
    <3>1. PICK id \in todo : IF Skips(id) THEN UNCHANGED <<mode, body>>
                             ELSE mode' = "iterate" /\ body' = Body(job.op)
      BY <1>4 DEF Iterate
    <3> QED BY <1>4, <3>1, AtEach DEF Iterate
  <2>2. LeftOf(Body(job.op), Body(job.op))
    BY <2>1, CodeType, LeftOfItself DEF Ops
  <2> QED BY <2>1, <2>2 DEF Control, Live
<1>5. CASE EndOfBody BY <1>5 DEF EndOfBody, Control, Live, Iterating
<1>6. CASE CloseInner BY <1>6 DEF CloseInner, Control, Live
<1>7. CASE EndOfLoop
  <2>1. Moves BY <1>7 DEF EndOfLoop, Moves, At
  <2> QED BY <2>1, MovesControl
<1>8. CASE EndOfCode BY <1>8 DEF EndOfCode, Control, Live, Return
<1>9. CASE CloseDeferred BY <1>9 DEF CloseDeferred, Control, Live
<1>10. CASE Finished BY <1>10 DEF Finished, vars, Control, Live
<1> QED
  BY <1>1, <1>2, <1>3, <1>4, <1>5, <1>6, <1>7, <1>8, <1>9, <1>10
  DEF Next, StepAction
-----------------------------------------------------------------------------
(* What the operation has achieved *)

\* The operation is running, or has returned no error.
Alive == Live \/ outcome = "ok"

\* The snapshot an iteration is at work on.
InFlight == IF mode = "iterate" /\ body # <<>> THEN {cur} ELSE {}

\* The store can be opened with the passphrase of the connector.
Opens(conn) == conn.pass \in {"", stores[conn.loc]}

\* There is a snapshot wherever one is used.
Current ==
    /\ mode = "iterate" => cur \in IDs
    /\ Live /\ job.op = "restore" /\ Len(code) <= 2 => cur \in IDs

Created ==
    Alive /\ job.op = "create" /\ Len(code) = 0 =>
        stores[job.source.loc] = IF job.no_encryption \/ job.source.pass = ""
                                 THEN "plain" ELSE job.source.pass

Committed ==
    Alive /\ job.op = "backup" /\ Len(code) = 0 =>
        cur \in snaps[job.target.loc]

\* Every store that was opened is used under its own passphrase.
Opened ==
    Alive =>
        /\ job.op \in {"check", "restore"} /\ Len(code) <= 3 => Opens(job.source)
        /\ job.op = "backup" /\ Len(code) <= 6 => Opens(job.target)
        /\ job.op = "sync" /\ Len(code) <= 5 => Opens(job.source)
        /\ job.op = "sync" /\ Len(code) <= 3 => Opens(job.target)
        /\ job.op = "test_store" /\ Len(code) <= 1 => Opens(job.source)

\* Without an error, every located snapshot is checked, in the works or to do.
Checked ==
    Alive /\ job.op = "check" =>
        /\ Len(code) >= 3 => located = {} /\ done = {} /\ todo = {} /\ errors = 0
        /\ errors = 0 => located = done \cup todo \cup InFlight
        /\ Len(code) = 0 => todo = {} /\ errors = 0

\* One snapshot is located, and that one is exported.
Restored ==
    Alive /\ job.op = "restore" =>
        /\ Len(code) <= 2 => located = {cur}
        /\ done = IF Len(code) = 0 THEN {cur} ELSE {}

(***************************************************************************)
(* While the target is being filled it holds what it was listed to have    *)
(* and located snapshots whose turn has come; without an error, all of     *)
(* those. So what is not skipped is not there yet.                         *)
(***************************************************************************)
Synced ==
    LET has == snaps[job.target.loc] IN
    Alive /\ job.op = "sync" =>
        /\ Len(code) = 2 => present = has
        /\ Len(code) <= 1 =>
              /\ present \subseteq has
              /\ todo \subseteq located
              /\ has \subseteq present \cup (located \ (todo \cup InFlight))
              /\ errors = 0 => located \subseteq has \cup todo \cup InFlight
              /\ mode = "iterate" => cur \in located \ todo
        /\ Len(code) = 0 => todo = {}
        /\ InFlight \cap has = {}
-----------------------------------------------------------------------------
(* Types *)

Typed == TypeOK /\ Current

\* The code that is left is a sequence of steps.
LEMMA ControlType ==
    ASSUME Control
    PROVE  code \in Seq(StepType) /\ body \in Seq(StepType)
<1>1. <<>> \in Seq(StepType) OBVIOUS
<1>2. code = <<>> \/ LeftOf(code, Code(job.op)) BY DEF Control
<1>3. body = <<>> \/ LeftOf(body, Body(job.op)) BY DEF Control
<1> QED BY <1>1, <1>2, <1>3 DEF LeftOf

\* The step at hand.
LEMMA HeadType ==
    ASSUME Control, mode \in {"run", "iterate"}, Steps # <<>>
    PROVE  /\ Steps \in Seq(StepType) /\ Head(Steps) \in StepType
           /\ job \in Payloads /\ job.op \in Ops
           /\ mode = "run" => LeftOf(code, Code(job.op)) /\ Steps = code
           /\ mode = "iterate" => /\ LeftOf(body, Body(job.op)) /\ Steps = body
                                  /\ job.op \in {"check", "sync"}
  BY ControlType, PayloadType DEF Steps, Iterating, Control, Live

\* The calls with an effect, where they are made.
LEMMA AtEffect ==
    ASSUME Control, NEW c, AtCall(c)
    PROVE  /\ job \in Payloads /\ job.op \in Ops
           /\ c = "Create" => mode = "run" /\ job.op = "create" /\ Len(code) = 1
           /\ c = "Commit" => mode = "run" /\ job.op = "backup" /\ Len(code) = 1
           /\ c = "Export" => mode = "run" /\ job.op = "restore" /\ Len(code) = 1
           /\ c = "ListSnapshots" =>
                 mode = "run" /\ job.op = "sync" /\ Len(code) = 3
           /\ c = "Check" => mode = "iterate" /\ job.op = "check" /\ Len(body) = 1
           /\ c = "Synchronize" =>
                 mode = "iterate" /\ job.op = "sync" /\ Len(body) = 1
<1>1. /\ mode \in {"run", "iterate"} /\ Steps # <<>>
      /\ Head(Steps).kind = "call" /\ Head(Steps).what = c
  BY DEF AtCall, At
<1>2. CASE mode = "run" BY <1>1, <1>2, HeadType, CodeStep
<1>3. CASE mode = "iterate" BY <1>1, <1>3, HeadType, BodyStep
<1> QED BY <1>1, <1>2, <1>3

\* Where the snapshots are located: the operations that do, and their point.
LEMMA AtLocate ==
    ASSUME Control, At("locate")
    PROVE  /\ mode = "run" /\ job \in Payloads
           /\ \/ job.op \in {"check", "restore"} /\ Len(code) = 3
              \/ job.op = "sync" /\ Len(code) = 2
<1>1. mode \in {"run", "iterate"} /\ Steps # <<>> /\ Head(Steps).kind = "locate"
  BY DEF At
<1>2. CASE mode = "run" BY <1>1, <1>2, HeadType, CodeStep
<1>3. CASE mode = "iterate" BY <1>1, <1>3, HeadType, BodyStep
<1> QED BY <1>1, <1>2, <1>3

\* Where a repository is opened: the operations that do, and their point.
LEMMA AtRepo ==
    ASSUME Control, At("openrepo")
    PROVE  /\ mode = "run" /\ job \in Payloads
           /\ Head(Steps).onError = "return"
           /\ \/ /\ job.op \in {"check", "restore"} /\ Len(code) = 4
                 /\ Head(Steps).what = "source"
              \/ /\ job.op = "backup" /\ Len(code) = 7
                 /\ Head(Steps).what = "target"
              \/ /\ job.op = "sync" /\ Len(code) = 6
                 /\ Head(Steps).what = "source"
              \/ /\ job.op = "sync" /\ Len(code) = 4
                 /\ Head(Steps).what = "target"
              \/ /\ job.op = "test_store" /\ Len(code) = 2
                 /\ Head(Steps).what = "source"
<1>1. mode \in {"run", "iterate"} /\ Steps # <<>> /\ Head(Steps).kind = "openrepo"
  BY DEF At
<1>2. CASE mode = "run" BY <1>1, <1>2, HeadType, CodeStep
<1>3. CASE mode = "iterate" BY <1>1, <1>3, HeadType, BodyStep
<1> QED BY <1>1, <1>2, <1>3

\* Where a repository is closed: in the test of a store.
LEMMA AtShut ==
    ASSUME Control, At("closerepo")
    PROVE  /\ mode = "run" /\ job.op = "test_store" /\ Len(code) = 1
           /\ Head(Steps).what = "source"
<1>1. mode \in {"run", "iterate"} /\ Steps # <<>> /\ Head(Steps).kind = "closerepo"
  BY DEF At
<1>2. CASE mode = "run" BY <1>1, <1>2, HeadType, CodeStep
<1>3. CASE mode = "iterate" BY <1>1, <1>3, HeadType, BodyStep
<1> QED BY <1>1, <1>2, <1>3

\* What the ways to go on from a step leave alone.
LEMMA MovesType ==
    ASSUME TypeOK
    PROVE  /\ GoOn => outcome' = outcome
           /\ Fail => errors' \in Nat /\ outcome' \in {outcome, "error"}
           /\ Return("panic") => outcome' = "panic"
<1>1. errors \in Nat BY DEF TypeOK
<1>2. GoOn => outcome' = outcome BY DEF GoOn
<1>3. \A result : Return(result) => outcome' = result BY DEF Return
<1>4. Fail => errors' \in Nat BY <1>1 DEF Fail
<1>5. Fail => outcome' \in {outcome, "error"} BY <1>2, <1>3 DEF Fail
<1> QED BY <1>2, <1>3, <1>4, <1>5

\* A stack without its top is a stack of the same resources.
LEMMA FrontType ==
    ASSUME NEW S, NEW s \in Seq(S), s # <<>>
    PROVE  Front(s) \in Seq(S) /\ Last(s) \in S
  BY DEF Front, Last

\* The initial states have their types.
LEMMA InitTyped == Init => Control /\ Typed
<1> SUFFICES ASSUME Init PROVE Control /\ Typed OBVIOUS
<1>1. Control BY DEF Init, Control, Live
<1>2. TypeOK
  <2>1. MaxJobs \in Nat BY OperationsAssumption
  <2>2. <<>> \in Seq(StepType) /\ <<>> \in Seq(Resources) OBVIOUS
  <2>3. jobs \in 0..MaxJobs
    <3>1. jobs = 0 BY DEF Init
    <3> QED BY <2>1, <3>1
  <2>4. /\ mode = "idle" /\ outcome = "none" /\ errors = 0
        /\ code = <<>> /\ body = <<>> /\ defers = <<>> /\ inner = <<>>
        /\ open = {} /\ repos = {} /\ present = {} /\ located = {} /\ todo = {} /\ done = {}
        /\ cur = NoID /\ job = [op |-> "none"]
    BY DEF Init
  <2>5. /\ stores \in [Locations -> Passphrases \cup {"none", "plain"}]
        /\ created \in [Locations -> Passphrases \cup {""}]
        /\ snaps \in [Locations -> SUBSET IDs]
    BY DEF Init
  <2> QED BY <2>2, <2>3, <2>4, <2>5 DEF TypeOK
<1>3. Current BY DEF Init, Current, Live
<1> QED BY <1>1, <1>2, <1>3 DEF Typed

\* Every step keeps the types.
LEMMA NextType == ASSUME Typed, Control, Next PROVE TypeOK'
<1> USE DEF Typed
<1>1. Control' BY NextControl
<1>2. /\ mode' \in {"idle", "run", "iterate", "next", "return"}
      /\ code' \in Seq(StepType) /\ body' \in Seq(StepType)
  <2>1. \/ code' = <<>>
        \/ LeftOf(code', Code(job'.op))
    BY <1>1 DEF Control
  <2>2. body' = <<>> \/ LeftOf(body', Body(job'.op)) BY <1>1 DEF Control
  <2>3. <<>> \in Seq(StepType) OBVIOUS
  <2> QED BY <1>1, <2>1, <2>2, <2>3 DEF LeftOf, Control
<1> DEFINE Disk == /\ stores' \in [Locations -> Passphrases \cup {"none", "plain"}]
                   /\ created' \in [Locations -> Passphrases \cup {""}]
                   /\ snaps' \in [Locations -> SUBSET IDs]
           Frames == /\ defers' \in Seq(Resources) /\ inner' \in Seq(Resources)
                     /\ open' \in SUBSET Resources
                     /\ repos' \in SUBSET {"source", "target"}
           Loop == /\ present' \in SUBSET IDs /\ located' \in SUBSET IDs
                   /\ todo' \in SUBSET IDs /\ done' \in SUBSET IDs
                   /\ cur' \in IDs \cup {NoID} /\ errors' \in Nat
           Jobs == /\ jobs' \in 0..MaxJobs
                   /\ job' \in Payloads \cup {[op |-> "none"]}
                   /\ outcome' \in {"none", "ok", "error", "panic", "killed"}
<1>3. ASSUME UNCHANGED disk PROVE Disk BY <1>3 DEF disk, TypeOK
<1>4. ASSUME UNCHANGED frames PROVE Frames BY <1>4 DEF frames, TypeOK
<1>5. ASSUME UNCHANGED loop PROVE Loop BY <1>5 DEF loop, TypeOK
<1>6. CASE Start
  <2>1. Disk BY <1>3, <1>6 DEF Start
  <2>2. <<>> \in Seq(Resources) OBVIOUS
  <2>3. Frames BY <1>6, <2>2 DEF Start
  <2>4. Loop BY <1>6 DEF Start
  <2>5. Jobs
    <3>1. jobs \in 0..MaxJobs /\ jobs < MaxJobs /\ jobs' = jobs + 1 /\ MaxJobs \in Nat
      BY <1>6, OperationsAssumption DEF Start, TypeOK
    <3>2. job' \in Payloads /\ outcome' \in {"none", "error"} BY <1>6 DEF Start
    <3> QED BY <3>1, <3>2
  <2> QED BY <1>2, <2>1, <2>3, <2>4, <2>5 DEF TypeOK
<1>7. CASE Kill \/ EndOfBody \/ EndOfCode \/ EndOfLoop
  <2>1. UNCHANGED <<disk, frames, loop, jobs, job>>
    BY <1>7 DEF Kill, EndOfBody, EndOfCode, EndOfLoop
  <2>2. Jobs
    BY <1>7, <2>1
    DEF Kill, EndOfBody, EndOfCode, EndOfLoop, Return, GoOn, TypeOK
  <2> QED BY <1>2, <1>3, <1>4, <1>5, <2>1, <2>2 DEF TypeOK
<1>8. CASE StepAction
  <2>1. Moves BY <1>8, StepMoves
  <2>2. mode \in {"run", "iterate"} /\ Steps # <<>> BY <2>1 DEF Moves
  <2>3. CASE AcquireStep
    <3>1. Head(Steps) \in StepType /\ Head(Steps).kind = "acquire"
      BY <2>2, <2>3, HeadType DEF AcquireStep, At
    <3>2. Head(Steps).what \in Resources BY <3>1 DEF StepType
    <3>3. Frames
      <4>1. CASE UNCHANGED frames BY <1>4, <4>1
      <4>2. ASSUME NEW r \in Resources, open' = open \cup {r}, repos' = repos,
                   \/ inner' = Append(inner, r) /\ UNCHANGED defers
                   \/ defers' = Append(defers, r) /\ UNCHANGED inner
            PROVE  Frames
        <5>1. Append(inner, r) \in Seq(Resources) /\ Append(defers, r) \in Seq(Resources)
          <6>1. inner \in Seq(Resources) /\ defers \in Seq(Resources) BY DEF TypeOK
          <6> QED BY <6>1
        <5>2. open' \in SUBSET Resources BY <4>2 DEF TypeOK
        <5> QED BY <4>2, <5>1, <5>2 DEF TypeOK
      <4> QED BY <2>3, <3>2, <4>1, <4>2 DEF AcquireStep, Deferred
    <3>4. Loop BY <2>1, <2>3, MovesType DEF AcquireStep, TypeOK
    <3>5. Jobs BY <2>1, <2>3, MovesType DEF AcquireStep, TypeOK
    <3>6. Disk BY <1>3, <2>3 DEF AcquireStep
    <3> QED BY <1>2, <3>3, <3>4, <3>5, <3>6 DEF TypeOK
  <2>4. CASE CallStep
    <3>4. Loop BY <2>1, <2>4, MovesType DEF CallStep, TypeOK
    <3>5. Jobs BY <2>1, <2>4, MovesType DEF CallStep, TypeOK
    <3> QED BY <1>2, <1>3, <1>4, <2>4, <3>4, <3>5 DEF TypeOK, CallStep
  <2>5. CASE OpenRepo
    <3>1. Head(Steps).what \in {"source", "target"}
      BY <2>5, AtRepo DEF OpenRepo
    <3>2. repos' \in {repos, repos \cup {Head(Steps).what}}
      BY <2>5 DEF OpenRepo
    <3>3. Frames BY <2>5, <3>1, <3>2 DEF OpenRepo, TypeOK
    <3>4. Loop BY <2>1, <2>5, MovesType DEF OpenRepo, TypeOK
    <3>5. Jobs BY <2>1, <2>5, MovesType DEF OpenRepo, TypeOK
    <3> QED BY <1>2, <1>3, <2>5, <3>3, <3>4, <3>5 DEF TypeOK, OpenRepo
  <2>13. CASE CloseRepo
    <3>3. Frames BY <2>13 DEF CloseRepo, TypeOK
    <3>4. Loop BY <1>5, <2>13 DEF CloseRepo
    <3>5. Jobs BY <2>13, MovesType DEF CloseRepo, TypeOK
    <3> QED BY <1>2, <1>3, <2>13, <3>3, <3>4, <3>5 DEF TypeOK, CloseRepo
  <2>6. CASE StoreCreate
    <3>1. job.source \in Connectors
      BY <2>6, AtEffect, PayloadType DEF StoreCreate
    <3>2. job.source.pass \in Passphrases \cup {""} BY <3>1 DEF Connectors
    <3>3. Disk BY <2>6, <3>2 DEF StoreCreate, TypeOK, disk
    <3>4. Loop BY <2>1, <2>6, MovesType DEF StoreCreate, TypeOK
    <3>5. Jobs BY <2>1, <2>6, MovesType DEF StoreCreate, TypeOK
    <3> QED BY <1>2, <1>4, <2>6, <3>3, <3>4, <3>5 DEF TypeOK, StoreCreate
  <2>7. CASE Commit
    <3>1. \/ UNCHANGED <<snaps, cur>>
          \/ \E id \in IDs : /\ cur' = id
                            /\ snaps' = [snaps EXCEPT ![job.target.loc] = @ \cup {id}]
      BY <2>7 DEF Commit
    <3>2. Fail \/ errors' \in {errors, errors + 1} BY <2>7 DEF Commit
    <3>3. Disk
      <4>1. snaps \in [Locations -> SUBSET IDs] BY DEF TypeOK
      <4>2. snaps' \in [Locations -> SUBSET IDs] BY <3>1, <4>1
      <4> QED BY <2>7, <4>2 DEF Commit, TypeOK
    <3>4. Loop
      <4>1. errors' \in Nat
        <5>1. errors \in Nat BY DEF TypeOK
        <5> QED BY <3>2, <5>1, MovesType
      <4>2. cur' \in IDs \cup {NoID} BY <3>1 DEF TypeOK
      <4> QED BY <2>7, <4>1, <4>2 DEF Commit, TypeOK
    <3>5. Jobs BY <2>1, <2>7, MovesType DEF Commit, TypeOK
    <3> QED BY <1>2, <1>4, <2>7, <3>3, <3>4, <3>5 DEF TypeOK, Commit
  <2>8. CASE ListSnapshots
    <3>1. job.target \in Connectors
      BY <2>8, AtEffect, PayloadType DEF ListSnapshots
    <3>2. job.target.loc \in Locations BY <3>1 DEF Connectors
    <3>4. Loop BY <2>1, <2>8, <3>2, MovesType DEF ListSnapshots, TypeOK
    <3>5. Jobs BY <2>1, <2>8, MovesType DEF ListSnapshots, TypeOK
    <3> QED BY <1>2, <1>3, <1>4, <2>8, <3>4, <3>5 DEF TypeOK, ListSnapshots
  <2>9. CASE LocateSnapshotIDs
    <3>1. job.source \in Connectors
      BY <2>9, AtLocate, PayloadType DEF LocateSnapshotIDs
    <3>2. job.source.loc \in Locations BY <3>1 DEF Connectors
    <3>4. Loop BY <2>1, <2>9, <3>2, MovesType DEF LocateSnapshotIDs, TypeOK
    <3>5. Jobs BY <2>1, <2>9, MovesType DEF LocateSnapshotIDs, TypeOK
    <3> QED BY <1>2, <1>3, <1>4, <2>9, <3>4, <3>5 DEF TypeOK, LocateSnapshotIDs
  <2>10. CASE Export
    <3>1. cur \in IDs
      <4>1. mode = "run" /\ job.op = "restore" /\ Len(code) = 1
        BY <2>10, AtEffect DEF Export
      <4> QED BY <4>1 DEF Current, Live
    <3>4. Loop BY <2>1, <2>10, <3>1, MovesType DEF Export, TypeOK
    <3>5. Jobs BY <2>1, <2>10, MovesType DEF Export, TypeOK
    <3> QED BY <1>2, <1>3, <1>4, <2>10, <3>4, <3>5 DEF TypeOK, Export
  <2>11. CASE Check
    <3>1. cur \in IDs BY <2>11, AtEffect DEF Check, Current
    <3>4. Loop BY <2>1, <2>11, <3>1, MovesType DEF Check, TypeOK
    <3>5. Jobs BY <2>1, <2>11, MovesType DEF Check, TypeOK
    <3> QED BY <1>2, <1>3, <1>4, <2>11, <3>4, <3>5 DEF TypeOK, Check
  <2>12. CASE Synchronize
    <3>1. cur \in IDs BY <2>12, AtEffect DEF Synchronize, Current
    <3>2. snaps' = snaps \/ snaps' = [snaps EXCEPT ![job.target.loc] = @ \cup {cur}]
      BY <2>12 DEF Synchronize
    <3>3. Disk
      <4>1. snaps \in [Locations -> SUBSET IDs] BY DEF TypeOK
      <4>2. snaps' \in [Locations -> SUBSET IDs] BY <3>1, <3>2, <4>1
      <4> QED BY <2>12, <4>2 DEF Synchronize, TypeOK
    <3>4. Loop BY <2>1, <2>12, <3>1, MovesType DEF Synchronize, TypeOK
    <3>5. Jobs BY <2>1, <2>12, MovesType DEF Synchronize, TypeOK
    <3> QED BY <1>2, <1>4, <2>12, <3>3, <3>4, <3>5 DEF TypeOK, Synchronize
  <2> QED
    BY <1>8, <2>3, <2>4, <2>5, <2>6, <2>7, <2>8, <2>9, <2>10, <2>11, <2>12,
       <2>13
    DEF StepAction
<1>9. CASE Iterate
  <2>1. Loop BY <1>9 DEF Iterate, TypeOK
  <2>2. Jobs BY <1>9 DEF Iterate, TypeOK
  <2> QED BY <1>2, <1>3, <1>4, <1>9, <2>1, <2>2 DEF TypeOK, Iterate
<1>10. CASE CloseInner
  <2>1. Frames
    <3>1. inner # <<>> => Front(inner) \in Seq(Resources) BY FrontType DEF TypeOK
    <3> QED BY <1>10, <3>1 DEF CloseInner, TypeOK
  <2>2. Jobs BY <1>10 DEF CloseInner, TypeOK
  <2> QED BY <1>2, <1>3, <1>5, <1>10, <2>1, <2>2 DEF TypeOK, CloseInner
<1>11. CASE CloseDeferred
  <2>1. Frames
    <3>1. defers # <<>> => Front(defers) \in Seq(Resources) BY FrontType DEF TypeOK
    <3> QED BY <1>11, <3>1 DEF CloseDeferred, TypeOK
  <2>2. Jobs BY <1>11 DEF CloseDeferred, TypeOK
  <2> QED BY <1>2, <1>3, <1>5, <1>11, <2>1, <2>2 DEF TypeOK, CloseDeferred
<1>12. CASE Finished BY <1>12 DEF Finished, vars, disk, frames, loop, TypeOK
<1> QED
  BY <1>6, <1>7, <1>8, <1>9, <1>10, <1>11, <1>12 DEF Next, StepAction
-----------------------------------------------------------------------------
(* The steps seen from what is achieved *)

\* The steps that achieve something, by what is left when they are reached.
LEMMA Milestone ==
    ASSUME NEW op \in Ops, NEW s, LeftOf(s, Code(op)), s # <<>>
    PROVE  /\ op \in {"check", "restore"} /\ Len(s) = 3 => Head(s).kind = "locate"
           /\ op = "sync" /\ Len(s) = 2 => Head(s).kind = "locate"
           /\ op \in {"check", "sync"} /\ Len(s) = 1 => Head(s).kind = "each"
           /\ op \in {"check", "restore"} /\ Len(s) = 4 => Head(s).kind = "openrepo"
           /\ op = "backup" /\ Len(s) = 7 => Head(s).kind = "openrepo"
           /\ op = "sync" /\ Len(s) \in {4, 6} => Head(s).kind = "openrepo"
           /\ op = "test_store" /\ Len(s) = 2 => Head(s).kind = "openrepo"
           /\ op = "test_store" /\ Len(s) = 1 => Head(s).kind = "closerepo"
           /\ op \in {"create", "backup", "restore"} /\ Len(s) = 1 =>
                 Head(s).kind = "call" /\ Head(s).what \in Effectful
           /\ op = "sync" /\ Len(s) = 3 =>
                 Head(s).kind = "call" /\ Head(s).what \in Effectful
<1>1. CASE op = "create"
  BY <1>1, CreateSteps DEF CreateAt, Code, Call, Effectful
<1>2. CASE op = "backup"
  <2>1. /\ Code(op) = BackupCode /\ Len(BackupCode) = 9
        /\ BackupCode[3] = Repo("target")
        /\ BackupCode[9] = Call("Commit")
    BY <1>2 DEF Code, BackupCode
  <2>2. ASSUME NEW n \in 1..9
        PROVE  /\ n = 7 => BackupCode[9 - n + 1] = Repo("target")
               /\ n = 1 => BackupCode[9 - n + 1] = Call("Commit")
    BY <2>1
  <2>3. Len(s) \in 1..9 /\ Head(s) = BackupCode[9 - Len(s) + 1]
    BY <2>1, LeftOfTail, CodeTypes
  <2>4. /\ Len(s) = 7 => Head(s) = Repo("target")
        /\ Len(s) = 1 => Head(s) = Call("Commit")
    BY <2>2, <2>3
  <2> QED BY <1>2, <2>4 DEF Call, Repo, Effectful
<1>3. CASE op = "check"
  <2>1. /\ Code(op) = CheckCode /\ Len(CheckCode) = 5
        /\ CheckCode[2] = Repo("source")
        /\ CheckCode[3] = Locate
        /\ CheckCode[5] = Each
    BY <1>3 DEF Code, CheckCode
  <2>2. ASSUME NEW n \in 1..5
        PROVE  /\ n = 4 => CheckCode[5 - n + 1] = Repo("source")
               /\ n = 3 => CheckCode[5 - n + 1] = Locate
               /\ n = 1 => CheckCode[5 - n + 1] = Each
    BY <2>1
  <2>3. Len(s) \in 1..5 /\ Head(s) = CheckCode[5 - Len(s) + 1]
    BY <2>1, LeftOfTail, CodeTypes
  <2>4. /\ Len(s) = 4 => Head(s) = Repo("source")
        /\ Len(s) = 3 => Head(s) = Locate
        /\ Len(s) = 1 => Head(s) = Each
    BY <2>2, <2>3
  <2> QED BY <1>3, <2>4 DEF Repo, Locate, Each
<1>4. CASE op = "restore"
  <2>1. /\ Code(op) = RestoreCode /\ Len(RestoreCode) = 6
        /\ RestoreCode[3] = Repo("source")
        /\ RestoreCode[4] = Locate
        /\ RestoreCode[6] = Call("Export")
    BY <1>4 DEF Code, RestoreCode
  <2>2. ASSUME NEW n \in 1..6
        PROVE  /\ n = 4 => RestoreCode[6 - n + 1] = Repo("source")
               /\ n = 3 => RestoreCode[6 - n + 1] = Locate
               /\ n = 1 => RestoreCode[6 - n + 1] = Call("Export")
    BY <2>1
  <2>3. Len(s) \in 1..6 /\ Head(s) = RestoreCode[6 - Len(s) + 1]
    BY <2>1, LeftOfTail, CodeTypes
  <2>4. /\ Len(s) = 4 => Head(s) = Repo("source")
        /\ Len(s) = 3 => Head(s) = Locate
        /\ Len(s) = 1 => Head(s) = Call("Export")
    BY <2>2, <2>3
  <2> QED BY <1>4, <2>4 DEF Call, Repo, Locate, Effectful
<1>5. CASE op = "sync"
  <2>1. /\ Code(op) = SyncCode /\ Len(SyncCode) = 7
        /\ SyncCode[2] = Repo("source")
        /\ SyncCode[4] = Repo("target")
        /\ SyncCode[5] = Call("ListSnapshots")
        /\ SyncCode[6] = Locate
        /\ SyncCode[7] = Each
    BY <1>5 DEF Code, SyncCode
  <2>2. ASSUME NEW n \in 1..7
        PROVE  /\ n = 6 => SyncCode[7 - n + 1] = Repo("source")
               /\ n = 4 => SyncCode[7 - n + 1] = Repo("target")
               /\ n = 3 => SyncCode[7 - n + 1] = Call("ListSnapshots")
               /\ n = 2 => SyncCode[7 - n + 1] = Locate
               /\ n = 1 => SyncCode[7 - n + 1] = Each
    BY <2>1
  <2>3. Len(s) \in 1..7 /\ Head(s) = SyncCode[7 - Len(s) + 1]
    BY <2>1, LeftOfTail, CodeTypes
  <2>4. /\ Len(s) = 6 => Head(s) = Repo("source")
        /\ Len(s) = 4 => Head(s) = Repo("target")
        /\ Len(s) = 3 => Head(s) = Call("ListSnapshots")
        /\ Len(s) = 2 => Head(s) = Locate
        /\ Len(s) = 1 => Head(s) = Each
    BY <2>2, <2>3
  <2> QED BY <1>5, <2>4 DEF Call, Repo, Locate, Each, Effectful
<1>6. CASE op = "test_store"
  <2>1. Code(op) = TestStoreCode BY <1>6 DEF Code
  <2>2. TestStoreAt(Len(s), Head(s)) BY <2>1, TestStoreSteps
  <2> QED BY <1>6, <2>2 DEF TestStoreAt, Repo, Shut
<1>7. CASE op = "test_source" BY <1>7
<1>8. CASE op = "test_destination" BY <1>8
<1> QED BY <1>1, <1>2, <1>3, <1>4, <1>5, <1>6, <1>7, <1>8 DEF Ops

\* A step of the operation that does not end it goes on to what is left.
LEMMA RunStep ==
    ASSUME Control, Moves, mode = "run", Alive'
    PROVE  /\ mode' = "run" /\ outcome' = "none"
           /\ code # <<>> /\ Len(code) \in Nat /\ Len(code') = Len(code) - 1
           /\ LeftOf(code, Code(job.op)) /\ job.op \in Ops /\ Steps = code
           /\ Fail => UNCHANGED errors
           /\ InFlight = {} /\ InFlight' = {}
<1>1. /\ code # <<>> /\ LeftOf(code, Code(job.op)) /\ Steps = code
      /\ job.op \in Ops /\ outcome = "none"
  BY HeadType DEF Moves, Control, Live
<1>2. code \in Seq(StepType) /\ Len(code) \in Nat /\ Len(Tail(code)) = Len(code) - 1
  BY <1>1, CodeType, LeftOfTail DEF LeftOf
<1>3. Head(code).onError # "count" BY <1>1, CodeStep
<1>4. \A result \in {"error", "panic"} : ~Return(result)
  BY DEF Return, Alive, Live
<1>5. Fail => GoOn /\ UNCHANGED errors BY <1>1, <1>3, <1>4 DEF Fail
<1>6. GoOn BY <1>4, <1>5 DEF Moves, Iterating
<1> QED BY <1>1, <1>2, <1>5, <1>6 DEF GoOn, Iterating, InFlight

\* A step of an iteration that does not end the operation.
LEMMA IterationStep ==
    ASSUME Control, Typed, Moves, mode = "iterate", Alive'
    PROVE  /\ code' = code /\ outcome' = "none" /\ job.op \in {"check", "sync"}
           /\ body # <<>> /\ LeftOf(body, Body(job.op)) /\ Steps = body
           /\ Len(code) = 1 /\ Len(body) \in Nat /\ InFlight = {cur}
           /\ Fail => mode' = "next" /\ body' = <<>> /\ errors' = errors + 1
           /\ GoOn => mode' = "iterate" /\ Len(body') = Len(body) - 1
           /\ body' = <<Last(body)>> => Len(body') = 1
<1>1. /\ body # <<>> /\ LeftOf(body, Body(job.op)) /\ Steps = body
      /\ job.op \in {"check", "sync"} /\ outcome = "none" /\ Len(code) = 1
  BY HeadType DEF Moves, Control, Live
<1>2. /\ body \in Seq(StepType) /\ Len(body) \in Nat
      /\ Len(Tail(body)) = Len(body) - 1 /\ Len(<<Last(body)>>) = 1
  <2>1. Body(job.op) \in Seq(StepType) BY <1>1, CodeType DEF Ops
  <2>2. body \in Seq(StepType) /\ Len(body) \in Nat BY <1>1 DEF LeftOf
  <2>3. Len(Tail(body)) = Len(body) - 1 BY <1>1, <2>1, LeftOfTail
  <2> QED BY <2>2, <2>3
<1>3. Head(body).onError # "go_on" BY <1>1, BodyStep
<1>4. \A result \in {"error", "panic"} : ~Return(result)
  BY DEF Return, Alive, Live
<1>5. InFlight = {cur} BY <1>1 DEF InFlight
<1>6. Fail => mode' = "next" /\ body' = <<>> /\ errors' = errors + 1
              /\ UNCHANGED <<code, outcome>>
  BY <1>1, <1>3, <1>4 DEF Fail
<1>7. GoOn => mode' = "iterate" /\ Len(body') = Len(body) - 1
              /\ UNCHANGED <<code, outcome>>
  BY <1>2 DEF GoOn, Iterating
<1>8. UNCHANGED <<code, outcome>> BY <1>4, <1>6, <1>7 DEF Moves
<1> QED BY <1>1, <1>2, <1>5, <1>6, <1>7, <1>8, Zenon
\* A step without an effect, taken or failed.
PlainStep == AcquireStep \/ CallStep \/ OpenRepo \/ CloseRepo

\* It leaves what is achieved alone, and is not a step that achieves something.
LEMMA PlainLeaves ==
    ASSUME Control, Typed, PlainStep, Alive'
    PROVE  /\ UNCHANGED <<disk, job, present, located, todo, cur, done>>
           /\ mode = "run" =>
                 /\ mode' = "run" /\ Len(code) \in Nat /\ Len(code') = Len(code) - 1
                 /\ errors' = errors /\ InFlight = {} /\ InFlight' = {}
                 /\ job.op \in {"create", "backup", "check", "restore", "sync"} =>
                       Len(code) # 1
                 /\ job.op \in {"check", "restore"} => Len(code) # 3
                 /\ job.op = "sync" => Len(code) \notin {2, 3}
           /\ mode = "iterate" =>
                 /\ code' = code /\ Len(code) = 1 /\ job.op \in {"check", "sync"}
                 /\ InFlight = {cur}
                 /\ \/ mode' = "iterate" /\ errors' = errors /\ InFlight' = {cur}
                    \/ mode' = "next" /\ errors' = errors + 1 /\ InFlight' = {}
           /\ mode \in {"run", "iterate"} /\ Live
<1>1. Moves BY StepMoves DEF PlainStep, StepAction
<1>2. mode \in {"run", "iterate"} /\ Live /\ Steps # <<>> BY <1>1 DEF Moves, Live
<1>3. UNCHANGED <<disk, job, present, located, todo, cur, done>>
  BY DEF PlainStep, AcquireStep, CallStep, OpenRepo, CloseRepo, loop
<1>4. /\ Head(Steps).kind \in {"acquire", "call", "openrepo", "closerepo"}
      /\ Head(Steps).kind = "call" => Head(Steps).what \notin Effectful
  BY DEF PlainStep, AcquireStep, CallStep, OpenRepo, CloseRepo, At
<1>5. CASE mode = "run"
  <2>1. /\ mode' = "run" /\ code # <<>> /\ LeftOf(code, Code(job.op))
        /\ job.op \in Ops /\ Steps = code /\ (Fail => UNCHANGED errors)
        /\ Len(code) \in Nat /\ Len(code') = Len(code) - 1
        /\ InFlight = {} /\ InFlight' = {}
    BY <1>1, <1>5, RunStep
  <2>2. errors' = errors
    BY <1>5, <2>1
    DEF PlainStep, AcquireStep, CallStep, OpenRepo, CloseRepo, Iterating, loop
  <2>3. /\ job.op \in {"create", "backup", "check", "restore", "sync"} =>
              Len(code) # 1
        /\ job.op \in {"check", "restore"} => Len(code) # 3
        /\ job.op = "sync" => Len(code) \notin {2, 3}
    BY <1>4, <2>1, Milestone
  <2> QED BY <1>2, <1>3, <1>5, <2>1, <2>2, <2>3
<1>6. CASE mode = "iterate"
  <2>1. /\ code' = code /\ job.op \in {"check", "sync"} /\ InFlight = {cur}
        /\ body # <<>> /\ LeftOf(body, Body(job.op)) /\ Steps = body
        /\ Len(code) = 1 /\ Len(body) \in Nat
        /\ Fail => mode' = "next" /\ body' = <<>> /\ errors' = errors + 1
        /\ GoOn => mode' = "iterate" /\ Len(body') = Len(body) - 1
        /\ body' = <<Last(body)>> => Len(body') = 1
    BY <1>1, <1>6, IterationStep
  <2>2. Len(body) # 1 /\ Len(body) # 0
    <3>1. Len(body) # 1 BY <1>4, <2>1, BodyStep DEF Effectful
    <3>2. body \in Seq(StepType) BY <2>1 DEF LeftOf
    <3> QED BY <2>1, <3>1, <3>2
  <2>3. Head(Steps).kind \notin {"openrepo", "closerepo"} BY <2>1, BodyStep
  <2>4. \/ Fail
        \/ GoOn /\ errors' = errors
        \/ body' = <<Last(body)>> /\ mode' = "iterate" /\ errors' = errors
    BY <1>6, <2>3 DEF PlainStep, AcquireStep, CallStep, OpenRepo, CloseRepo, At
  <2>5. CASE Fail
    BY <1>2, <1>3, <1>6, <2>1, <2>5 DEF InFlight
  <2>6. ASSUME Len(body') # 0 PROVE body' # <<>> BY <2>6
  <2>7. CASE GoOn /\ errors' = errors
    <3>1. body' # <<>> BY <2>1, <2>2, <2>6, <2>7
    <3> QED BY <1>2, <1>3, <1>6, <2>1, <2>7, <3>1 DEF InFlight
  <2>8. CASE body' = <<Last(body)>> /\ mode' = "iterate" /\ errors' = errors
    <3>1. body' # <<>> BY <2>1, <2>6, <2>8
    <3> QED BY <1>2, <1>3, <1>6, <2>1, <2>8, <3>1 DEF InFlight
  <2> QED BY <2>4, <2>5, <2>7, <2>8
<1> QED BY <1>2, <1>5, <1>6

\* The steps that only end something.
QuietStep ==
    \/ Kill \/ EndOfBody \/ CloseInner \/ EndOfCode \/ CloseDeferred \/ Finished

\* A quiet step leaves the stores, the code and the loop as they are.
LEMMA QuietLeaves ==
    ASSUME Control, QuietStep, Alive'
    PROVE  /\ Alive /\ UNCHANGED <<disk, job, code, loop>>
           /\ InFlight = {} /\ InFlight' = {} /\ mode' # "iterate"
           /\ Live' => Live
<1>1. CASE Kill BY <1>1 DEF Kill, Alive, Live
<1>2. CASE EndOfBody
  BY <1>2 DEF EndOfBody, Alive, Live, InFlight, Iterating
<1>3. CASE CloseInner BY <1>3 DEF CloseInner, Alive, Live, InFlight
<1>4. CASE EndOfCode BY <1>4 DEF EndOfCode, Alive, Live, InFlight, Return
<1>5. CASE CloseDeferred BY <1>5 DEF CloseDeferred, Alive, Live, InFlight
<1>6. CASE Finished
  BY <1>6 DEF Finished, Alive, Live, InFlight, vars
<1> QED BY <1>1, <1>2, <1>3, <1>4, <1>5, <1>6 DEF QuietStep
\* What the actions are, and where they are taken.
LEMMA Acts ==
    ASSUME Control, Next
    PROVE  \/ Start
           \/ PlainStep
           \/ QuietStep
           \/ StoreCreate /\ Moves /\ mode = "run" /\ job.op = "create" /\ Len(code) = 1
           \/ Commit /\ Moves /\ mode = "run" /\ job.op = "backup" /\ Len(code) = 1
           \/ Export /\ Moves /\ mode = "run" /\ job.op = "restore" /\ Len(code) = 1
           \/ ListSnapshots /\ Moves /\ mode = "run" /\ job.op = "sync" /\ Len(code) = 3
           \/ LocateSnapshotIDs /\ Moves /\ mode = "run" /\ job \in Payloads
              /\ \/ job.op \in {"check", "restore"} /\ Len(code) = 3
                 \/ job.op = "sync" /\ Len(code) = 2
           \/ Check /\ Moves /\ mode = "iterate" /\ job.op = "check" /\ Len(body) = 1
           \/ Synchronize /\ Moves /\ mode = "iterate" /\ job.op = "sync" /\ Len(body) = 1
           \/ Iterate /\ mode = "run" /\ job.op \in {"check", "sync"} /\ Len(code) = 1
           \/ EndOfLoop /\ Moves /\ mode = "run" /\ job.op \in {"check", "sync"} /\ Len(code) = 1
<1>1. StepAction => Moves BY StepMoves
<1>2. CASE StoreCreate BY <1>1, <1>2, AtEffect DEF StoreCreate, StepAction
<1>3. CASE Commit BY <1>1, <1>3, AtEffect DEF Commit, StepAction
<1>4. CASE Export BY <1>1, <1>4, AtEffect DEF Export, StepAction
<1>5. CASE ListSnapshots BY <1>1, <1>5, AtEffect DEF ListSnapshots, StepAction
<1>6. CASE LocateSnapshotIDs
  BY <1>1, <1>6, AtLocate DEF LocateSnapshotIDs, StepAction
<1>7. CASE Check BY <1>1, <1>7, AtEffect DEF Check, StepAction
<1>8. CASE Synchronize BY <1>1, <1>8, AtEffect DEF Synchronize, StepAction
<1>9. CASE Iterate BY <1>9, AtEach DEF Iterate
<1>10. CASE EndOfLoop
  <2>1. Moves BY <1>10 DEF EndOfLoop, Moves, At
  <2> QED BY <1>10, <2>1, AtEach DEF EndOfLoop
<1> QED
  BY <1>2, <1>3, <1>4, <1>5, <1>6, <1>7, <1>8, <1>9, <1>10
  DEF Next, PlainStep, QuietStep

\* How long the code of each operation is.
LEMMA CodeLen ==
    /\ Len(Code("create")) = 5 /\ Len(Code("backup")) = 9
    /\ Len(Code("check")) = 5 /\ Len(Code("restore")) = 6
    /\ Len(Code("sync")) = 7 /\ Len(Code("test_store")) = 3
  BY DEF Code, CreateCode, BackupCode, CheckCode, RestoreCode, SyncCode,
         TestStoreCode

\* A job that starts has all of its code before it.
LEMMA Started ==
    ASSUME Start, Alive'
    PROVE  /\ mode' = "run" /\ InFlight' = {} /\ job' \in Payloads
           /\ located' = {} /\ todo' = {} /\ done' = {} /\ errors' = 0
           /\ job'.op \in {"create", "check"} => Len(code') = 5
           /\ job'.op = "backup" => Len(code') = 9
           /\ job'.op = "restore" => Len(code') = 6
           /\ job'.op = "sync" => Len(code') = 7
           /\ job'.op = "test_store" => Len(code') = 3
<1>1. mode' = "run" /\ code' = Code(job'.op) BY DEF Start, Alive, Live
<1> QED BY <1>1, CodeLen DEF Start, InFlight

\* The current snapshot is set where the operation uses it.
LEMMA NextCurrent == ASSUME Control, Typed, Next PROVE Current'
<1> SUFFICES ASSUME Live' PROVE Current' BY DEF Current, Live
<1>0. Alive' BY DEF Alive
<1>1. CASE Start
  <2>1. mode' = "run" /\ (job'.op = "restore" => Len(code') = 6)
    BY <1>0, <1>1, Started
  <2> QED BY <2>1 DEF Current
<1>2. CASE PlainStep
  <2>1. CASE mode = "run"
    <3>1. job.op = "restore" /\ Len(code') <= 2 => Len(code) <= 2
      BY <1>0, <1>2, <2>1, PlainLeaves
    <3> QED BY <1>0, <1>2, <2>1, <3>1, PlainLeaves DEF Current, Typed
  <2>2. CASE mode = "iterate"
    BY <1>0, <1>2, <2>2, PlainLeaves DEF Current, Typed
  <2> QED BY <1>0, <1>2, <2>1, <2>2, PlainLeaves
<1>3. CASE QuietStep
  BY <1>0, <1>3, QuietLeaves DEF Current, Typed, loop
<1>4. CASE Moves /\ mode = "run" /\ job.op \notin {"restore"}
  BY <1>0, <1>4, RunStep DEF Current, Moves
<1>5. CASE Export /\ Moves /\ mode = "run" /\ Len(code) = 1
  <2>1. mode' = "run" /\ cur' = cur /\ job' = job
    BY <1>0, <1>5, RunStep DEF Export
  <2> QED BY <1>5, <2>1 DEF Current, Typed, Live
<1>6. CASE LocateSnapshotIDs /\ Moves /\ mode = "run" /\ job \in Payloads
           /\ job.op = "restore"
  <2>1. mode' = "run" /\ outcome' = "none" BY <1>0, <1>6, RunStep
  <2>2. Head(Steps).kind = "locate" /\ Head(Steps).onError = "return"
    BY <1>6, HeadType, CodeStep DEF LocateSnapshotIDs, At
  <2>3. ~Fail BY <2>1, <2>2 DEF Fail, Return
  <2>4. job.source.loc \in Locations
    BY <1>6, PayloadType DEF Connectors
  <2>5. cur' \in IDs
    BY <1>6, <2>3, <2>4 DEF LocateSnapshotIDs, Typed, TypeOK
  <2> QED BY <2>1, <2>5 DEF Current
<1>7. CASE (Check \/ Synchronize) /\ Moves /\ mode = "iterate"
           /\ job.op \in {"check", "sync"}
  BY <1>7 DEF Check, Synchronize, Current, Typed
<1>8. CASE Iterate /\ job.op \in {"check", "sync"}
  BY <1>8 DEF Iterate, Current, Typed, TypeOK
<1> QED
  BY <1>1, <1>2, <1>3, <1>4, <1>5, <1>6, <1>7, <1>8, Acts
\* A step of the operation that cannot fail and go on was taken.
LEMMA NotFailed ==
    ASSUME Control, Moves, mode = "run", Alive',
           Head(Steps).kind \notin {"acquire", "closerepo"}
    PROVE  ~Fail
<1>1. /\ mode' = "run" /\ outcome' = "none" /\ code # <<>> /\ job.op \in Ops
      /\ LeftOf(code, Code(job.op)) /\ Steps = code
  BY RunStep
<1>2. Head(Steps).onError = "return" BY <1>1, CodeStep
<1> QED BY <1>1, <1>2 DEF Fail, Return

\* create: the store stays created once it is.
LEMMA NextCreated == ASSUME Control, Typed, Created, Next PROVE Created'
<1> SUFFICES ASSUME Alive', job'.op = "create", Len(code') = 0
             PROVE  Created'
  BY DEF Created
<1>1. CASE Start BY <1>1, Started
<1>2. CASE PlainStep BY <1>2, PlainLeaves
<1>3. CASE QuietStep BY <1>3, QuietLeaves DEF Created, disk
<1>4. CASE StoreCreate /\ Moves /\ mode = "run" /\ job.op = "create"
  <2>1. ~Fail BY <1>4, NotFailed DEF StoreCreate, AtCall, At
  <2>2. job.source.loc \in Locations
    BY <1>4, PayloadType DEF Connectors, Control
  <2>3. /\ job' = job
        /\ stores' = [stores EXCEPT ![job.source.loc] =
                          IF job.no_encryption \/ job.source.pass = ""
                          THEN "plain" ELSE job.source.pass]
    BY <1>4, <2>1 DEF StoreCreate
  <2> QED BY <2>2, <2>3 DEF Created, Typed, TypeOK
<1>5. CASE job' = job /\ job.op # "create" BY <1>5
<1> QED BY <1>1, <1>2, <1>3, <1>4, <1>5, Acts DEF Moves, Iterate

\* backup: the snapshot stays committed once it is.
LEMMA NextCommitted == ASSUME Control, Typed, Committed, Next PROVE Committed'
<1> SUFFICES ASSUME Alive', job'.op = "backup", Len(code') = 0
             PROVE  Committed'
  BY DEF Committed
<1>1. CASE Start BY <1>1, Started
<1>2. CASE PlainStep BY <1>2, PlainLeaves
<1>3. CASE QuietStep BY <1>3, QuietLeaves DEF Committed, disk, loop
<1>4. CASE Commit /\ Moves /\ mode = "run" /\ job.op = "backup"
  <2>1. ~Fail BY <1>4, NotFailed DEF Commit, AtCall, At
  <2>2. job.target.loc \in Locations
    BY <1>4, PayloadType DEF Connectors, Control
  <2>3. /\ job' = job
        /\ snaps' = [snaps EXCEPT ![job.target.loc] = @ \cup {cur'}]
    BY <1>4, <2>1 DEF Commit
  <2> QED BY <2>2, <2>3 DEF Committed, Typed, TypeOK
<1>5. CASE job' = job /\ job.op # "backup" BY <1>5
<1> QED BY <1>1, <1>2, <1>3, <1>4, <1>5, Acts DEF Moves, Iterate

\* restore: the one snapshot located is the one exported.
LEMMA NextRestored == ASSUME Control, Typed, Restored, Next PROVE Restored'
<1> SUFFICES ASSUME Alive', job'.op = "restore" PROVE Restored'
  BY DEF Restored
<1>1. CASE Start
  <2>1. Len(code') = 6 /\ done' = {} BY <1>1, Started
  <2> QED BY <2>1 DEF Restored
<1>2. CASE PlainStep
  <2>1. /\ mode = "run" /\ Len(code) \in Nat /\ Len(code') = Len(code) - 1
        /\ Len(code) \notin {1, 3} /\ job.op = "restore" /\ Alive
        /\ UNCHANGED <<job, located, cur, done>>
    BY <1>2, PlainLeaves DEF Alive
  <2>2. Len(code) # 0
    BY <1>2, <2>1, StepMoves, RunStep DEF StepAction, PlainStep, LeftOf
  <2>3. /\ Len(code') <= 2 => Len(code) <= 2
        /\ Len(code') # 0 /\ Len(code) # 0
    BY <2>1, <2>2
  <2> QED BY <2>1, <2>3 DEF Restored
<1>3. CASE QuietStep BY <1>3, QuietLeaves DEF Restored, disk, loop
<1>4. CASE Export /\ Moves /\ mode = "run" /\ job.op = "restore" /\ Len(code) = 1
  <2>1. ~Fail BY <1>4, NotFailed DEF Export, AtCall, At
  <2>2. Len(code') = 0 /\ Alive BY <1>4, RunStep DEF Alive, Live
  <2>3. located = {cur} /\ done = {} BY <1>4, <2>2 DEF Restored
  <2>4. done' = done \cup {cur} /\ located' = located /\ cur' = cur /\ job' = job
    BY <1>4, <2>1 DEF Export
  <2> QED BY <2>2, <2>3, <2>4 DEF Restored
<1>5. CASE LocateSnapshotIDs /\ Moves /\ mode = "run" /\ job.op = "restore"
           /\ Len(code) = 3
  <2>1. ~Fail BY <1>5, NotFailed DEF LocateSnapshotIDs, At
  <2>2. Len(code') = 2 /\ Alive BY <1>5, RunStep DEF Alive, Live
  <2>3. PICK found \in SUBSET snaps[job.source.loc] :
           /\ located' = found /\ Cardinality(found) = 1 /\ cur' \in found
    BY <1>5, <2>1 DEF LocateSnapshotIDs
  <2>4. job.source.loc \in Locations
    BY <1>5, PayloadType DEF Connectors, Control
  <2>5. IsFiniteSet(found)
    BY <2>3, <2>4, FS_Subset, OperationsAssumption DEF Typed, TypeOK
  <2>6. found = {cur'} BY <2>3, <2>5, FS_Singleton
  <2>7. done' = done /\ done = {} /\ job' = job
    BY <1>5, <2>2 DEF Restored, LocateSnapshotIDs
  <2> QED BY <2>2, <2>3, <2>6, <2>7 DEF Restored
<1>6. CASE job' = job /\ job.op # "restore" BY <1>6
<1> QED BY <1>1, <1>2, <1>3, <1>4, <1>5, <1>6, Acts DEF Moves, Iterate
\* A store that was opened was opened under its own passphrase.
LEMMA NextOpened == ASSUME Control, Typed, Opened, Next PROVE Opened'
<1> SUFFICES ASSUME Alive' PROVE Opened' BY DEF Opened
<1>1. CASE Start
  <2>1. /\ job'.op = "check" => Len(code') = 5
        /\ job'.op = "backup" => Len(code') = 9
        /\ job'.op = "restore" => Len(code') = 6
        /\ job'.op = "sync" => Len(code') = 7
        /\ job'.op = "test_store" => Len(code') = 3
    BY <1>1, Started
  <2>2. /\ job'.op \in {"check", "restore"} => ~(Len(code') <= 3)
        /\ job'.op = "backup" => ~(Len(code') <= 6)
        /\ job'.op = "sync" => ~(Len(code') <= 5) /\ ~(Len(code') <= 3)
        /\ job'.op = "test_store" => ~(Len(code') <= 1)
    <3>1. /\ ~(5 <= 3) /\ ~(6 <= 3) /\ ~(9 <= 6) /\ ~(7 <= 5) /\ ~(7 <= 3)
          /\ ~(3 <= 1)
      OBVIOUS
    <3> QED BY <2>1, <3>1, Zenon
  <2> QED BY <2>2 DEF Opened
<1>2. ASSUME Alive, UNCHANGED <<job, stores>>, Len(code') = Len(code)
      PROVE  Opened'
  BY <1>2 DEF Opened, Opens
<1>3. ASSUME Alive, UNCHANGED <<job, stores>>, mode = "run", Moves,
             Head(Steps).kind # "openrepo"
      PROVE  Opened'
  <2>1. /\ LeftOf(code, Code(job.op)) /\ code # <<>> /\ job.op \in Ops
        /\ Steps = code /\ Len(code) \in Nat /\ Len(code') = Len(code) - 1
    BY <1>3, RunStep
  <2>2. /\ job.op \in {"check", "restore"} => Len(code) # 4
        /\ job.op = "backup" => Len(code) # 7
        /\ job.op = "sync" => Len(code) # 6 /\ Len(code) # 4
        /\ job.op = "test_store" => Len(code) # 2
    BY <1>3, <2>1, Milestone
  <2>3. /\ job.op \in {"check", "restore"} /\ Len(code') <= 3 => Len(code) <= 3
        /\ job.op = "backup" /\ Len(code') <= 6 => Len(code) <= 6
        /\ job.op = "sync" /\ Len(code') <= 5 => Len(code) <= 5
        /\ job.op = "sync" /\ Len(code') <= 3 => Len(code) <= 3
        /\ job.op = "test_store" /\ Len(code') <= 1 => Len(code) <= 1
    BY <2>1, <2>2
  <2> QED BY <1>3, <2>3 DEF Opened, Opens
<1>4. CASE OpenRepo
  <2>1. /\ Moves /\ At("openrepo") /\ job' = job /\ stores' = stores
    BY <1>4, StepMoves DEF OpenRepo, StepAction, disk
  <2>2. /\ mode = "run" /\ job \in Payloads /\ Head(Steps).onError = "return"
        /\ \/ /\ job.op \in {"check", "restore"} /\ Len(code) = 4
              /\ Head(Steps).what = "source"
           \/ /\ job.op = "backup" /\ Len(code) = 7
              /\ Head(Steps).what = "target"
           \/ /\ job.op = "sync" /\ Len(code) = 6
              /\ Head(Steps).what = "source"
           \/ /\ job.op = "sync" /\ Len(code) = 4
              /\ Head(Steps).what = "target"
           \/ /\ job.op = "test_store" /\ Len(code) = 2
              /\ Head(Steps).what = "source"
    BY <2>1, AtRepo
  <2>3. Alive /\ mode' = "run" /\ outcome' = "none" /\ Len(code') = Len(code) - 1
    BY <2>1, <2>2, RunStep DEF Alive, Live
  <2>4. ~Fail /\ ~Return("panic") BY <2>2, <2>3 DEF Fail, Return
  <2>5. Opens(Side(Head(Steps).what))
    BY <1>4, <2>4 DEF OpenRepo, Opens
  <2>6. CASE job.op \in {"check", "restore"} /\ Len(code) = 4
             /\ Head(Steps).what = "source"
    BY <2>1, <2>3, <2>5, <2>6 DEF Opened, Opens, Side
  <2>7. CASE job.op = "backup" /\ Len(code) = 7 /\ Head(Steps).what = "target"
    BY <2>1, <2>3, <2>5, <2>7 DEF Opened, Opens, Side
  <2>8. CASE job.op = "sync" /\ Len(code) = 6 /\ Head(Steps).what = "source"
    <3>1. ~(Len(code') <= 3) /\ Opens(job.source) BY <2>3, <2>5, <2>8 DEF Side
    <3> QED BY <2>1, <2>8, <3>1 DEF Opened, Opens
  <2>9. CASE job.op = "sync" /\ Len(code) = 4 /\ Head(Steps).what = "target"
    <3>1. Len(code) <= 5 /\ Opens(job.target) BY <2>5, <2>9 DEF Side
    <3>2. Opens(job.source) BY <2>3, <2>9, <3>1 DEF Opened
    <3> QED BY <2>1, <2>9, <3>1, <3>2 DEF Opened, Opens
  <2>10. CASE job.op = "test_store" /\ Len(code) = 2
              /\ Head(Steps).what = "source"
    BY <2>1, <2>3, <2>5, <2>10 DEF Opened, Opens, Side
  <2> QED BY <2>2, <2>6, <2>7, <2>8, <2>9, <2>10
<1>5. CASE AcquireStep \/ CallStep \/ CloseRepo
  <2>1. /\ PlainStep /\ Moves /\ Head(Steps).kind # "openrepo"
        /\ UNCHANGED <<job, stores>>
    BY <1>5, StepMoves
    DEF PlainStep, StepAction, AcquireStep, CallStep, CloseRepo, At, disk
  <2>2. Alive /\ mode \in {"run", "iterate"} BY <2>1, PlainLeaves DEF Alive
  <2>3. mode = "iterate" => code' = code BY <2>1, PlainLeaves
  <2> QED BY <1>2, <1>3, <2>1, <2>2, <2>3
<1>6. CASE QuietStep BY <1>2, <1>6, QuietLeaves DEF disk
<1>7. CASE StoreCreate /\ job.op = "create" BY <1>7 DEF StoreCreate, Opened
<1>8. CASE (Commit \/ Export \/ ListSnapshots \/ LocateSnapshotIDs \/ EndOfLoop)
           /\ Moves /\ mode = "run"
  BY <1>3, <1>8
  DEF Commit, Export, ListSnapshots, LocateSnapshotIDs, EndOfLoop, At, AtCall,
      disk, Alive, Live
<1>9. CASE (Check \/ Synchronize) /\ Moves /\ mode = "iterate"
  <2>1. code' = code BY <1>9, IterationStep
  <2> QED BY <1>2, <1>9, <2>1 DEF Check, Synchronize, disk, Alive, Live
<1>10. CASE Iterate /\ mode = "run"
  BY <1>2, <1>10 DEF Iterate, disk, Alive, Live
<1> QED
  BY <1>1, <1>4, <1>5, <1>6, <1>7, <1>8, <1>9, <1>10, Acts DEF PlainStep

\* check: what is done and what is still to do are all that was located.
LEMMA NextChecked == ASSUME Control, Typed, Checked, Next PROVE Checked'
<1> SUFFICES ASSUME Alive', job'.op = "check" PROVE Checked'
  BY DEF Checked
<1>1. errors \in Nat BY DEF Typed, TypeOK
<1>2. CASE Start
  <2>1. /\ located' = {} /\ todo' = {} /\ done' = {} /\ errors' = 0
        /\ Len(code') = 5 /\ InFlight' = {}
    BY <1>2, Started
  <2> QED BY <2>1 DEF Checked
<1>3. CASE PlainStep
  <2>1. /\ UNCHANGED <<job, located, todo, done>> /\ Alive /\ job.op = "check"
        /\ mode \in {"run", "iterate"}
    BY <1>3, PlainLeaves DEF Alive
  <2>2. CASE mode = "run"
    <3>1. /\ Len(code) \in Nat /\ Len(code') = Len(code) - 1 /\ errors' = errors
          /\ InFlight = {} /\ InFlight' = {} /\ Len(code) # 1
      BY <1>3, <2>1, <2>2, PlainLeaves
    <3>2. (Len(code') >= 3 => Len(code) >= 3) /\ Len(code') # 0 BY <3>1
    <3> QED BY <2>1, <3>1, <3>2 DEF Checked
  <2>3. CASE mode = "iterate"
    <3>1. /\ code' = code /\ Len(code) = 1 /\ InFlight = {cur}
          /\ \/ errors' = errors /\ InFlight' = {cur}
             \/ errors' = errors + 1 /\ InFlight' = {}
      BY <1>3, <2>3, PlainLeaves
    <3>2. errors + 1 # 0 BY <1>1
    <3> QED BY <2>1, <3>1, <3>2 DEF Checked
  <2> QED BY <2>1, <2>2, <2>3
<1>4. CASE QuietStep BY <1>4, QuietLeaves DEF Checked, loop
<1>5. CASE LocateSnapshotIDs /\ Moves /\ mode = "run" /\ job.op = "check"
           /\ Len(code) = 3
  <2>1. ~Fail BY <1>5, NotFailed DEF LocateSnapshotIDs, At
  <2>2. Len(code') = 2 /\ Alive /\ InFlight' = {}
    BY <1>5, RunStep DEF Alive, Live
  <2>3. located' = todo' /\ done' = done /\ errors' = errors
    BY <1>5, <2>1 DEF LocateSnapshotIDs
  <2>4. done = {} /\ errors = 0 BY <1>5, <2>2 DEF Checked
  <2> QED BY <2>2, <2>3, <2>4 DEF Checked
<1>6. CASE Iterate /\ mode = "run" /\ job.op = "check" /\ Len(code) = 1
  <2>1. PICK id \in todo : cur' = id /\ todo' = todo \ {id} /\ mode' = "iterate"
                           /\ body' = Body("check")
    BY <1>6 DEF Iterate, Skips
  <2>2. body' # <<>> BY <2>1 DEF Body, CheckBody
  <2>3. InFlight = {} /\ InFlight' = {id} BY <1>6, <2>1, <2>2 DEF InFlight
  <2>4. UNCHANGED <<code, located, done, errors>> /\ Alive
    BY <1>6 DEF Iterate, Alive, Live
  <2> QED BY <1>6, <2>1, <2>3, <2>4 DEF Checked
<1>7. CASE Check /\ Moves /\ mode = "iterate" /\ job.op = "check" /\ Len(body) = 1
  <2>1. /\ code' = code /\ Len(code) = 1 /\ InFlight = {cur}
        /\ Fail => errors' = errors + 1
        /\ GoOn => mode' = "iterate" /\ Len(body') = Len(body) - 1
    BY <1>7, IterationStep
  <2>2. UNCHANGED <<located, todo>> /\ Alive BY <1>7 DEF Check, Alive, Live
  <2>3. CASE Fail
    <3>1. errors' # 0 BY <1>1, <2>1, <2>3
    <3> QED BY <2>1, <3>1 DEF Checked
  <2>4. CASE GoOn /\ done' = done \cup {cur} /\ UNCHANGED errors
    <3>1. Len(body') = 0 BY <1>7, <2>1, <2>4
    <3>2. body' = <<>>
      <4>1. Control' BY <1>7, MovesControl
      <4>2. body' = <<>> \/ LeftOf(body', Body(job'.op)) BY <4>1 DEF Control
      <4> QED BY <3>1, <4>2 DEF LeftOf
    <3>3. InFlight' = {} BY <3>2 DEF InFlight
    <3> QED BY <1>7, <2>1, <2>2, <2>4, <3>3 DEF Checked
  <2> QED BY <1>7, <2>3, <2>4 DEF Check
<1>8. CASE EndOfLoop /\ Moves /\ mode = "run" /\ job.op = "check" /\ Len(code) = 1
  <2>1. /\ mode' = "run" /\ Len(code') = 0 /\ InFlight = {} /\ InFlight' = {}
        /\ outcome' = "none" /\ Alive
    BY <1>8, RunStep DEF Alive, Live
  <2>2. todo = {} /\ UNCHANGED loop /\ ~LoopFails
    BY <1>8, <2>1 DEF EndOfLoop, Return
  <2>3. errors = 0 BY <1>1, <1>8, <2>2 DEF LoopFails
  <2> QED BY <1>8, <2>1, <2>2, <2>3 DEF Checked, loop
<1>9. CASE job' = job /\ job.op # "check" BY <1>9
<1> QED
  BY <1>2, <1>3, <1>4, <1>5, <1>6, <1>7, <1>8, <1>9, Acts DEF Moves, Iterate
\* sync: what is not to do any more is in the target, or an error counts.
LEMMA NextSynced == ASSUME Control, Typed, Synced, Next PROVE Synced'
<1> DEFINE tgt == job.target.loc
<1> SUFFICES ASSUME Alive', job'.op = "sync" PROVE Synced'
  BY DEF Synced
<1>1. errors \in Nat BY DEF Typed, TypeOK
<1>2. CASE Start
  <2>1. Len(code') = 7 /\ InFlight' = {} BY <1>2, Started
  <2> QED BY <2>1 DEF Synced
<1>3. CASE PlainStep
  <2>1. /\ UNCHANGED <<job, snaps, present, located, todo, cur, done>>
        /\ Alive /\ job.op = "sync" /\ mode \in {"run", "iterate"}
    BY <1>3, PlainLeaves DEF Alive, disk
  <2>2. CASE mode = "run"
    <3>1. /\ Len(code) \in Nat /\ Len(code') = Len(code) - 1 /\ InFlight' = {}
          /\ Len(code) \notin {1, 2, 3}
      BY <1>3, <2>1, <2>2, PlainLeaves
    <3>2. code # <<>> /\ code \in Seq(StepType)
      BY <1>3, <2>2, StepMoves, RunStep DEF PlainStep, StepAction, LeftOf
    <3>3. Len(code) # 0 BY <3>2
    <3>4. Len(code') # 2 /\ ~(Len(code') <= 1) /\ Len(code') # 0
      BY <3>1, <3>3
    <3> QED BY <3>1, <3>4 DEF Synced
  <2>3. CASE mode = "iterate"
    <3>1. /\ code' = code /\ Len(code) = 1 /\ InFlight = {cur}
          /\ \/ mode' = "iterate" /\ errors' = errors /\ InFlight' = {cur}
             \/ mode' = "next" /\ errors' = errors + 1 /\ InFlight' = {}
      BY <1>3, <2>3, PlainLeaves
    <3>2. errors + 1 # 0 BY <1>1
    <3> QED BY <2>1, <2>3, <3>1, <3>2 DEF Synced
  <2> QED BY <2>1, <2>2, <2>3
<1>4. CASE QuietStep BY <1>4, QuietLeaves DEF Synced, loop, disk
<1>5. CASE ListSnapshots /\ Moves /\ mode = "run" /\ job.op = "sync"
           /\ Len(code) = 3
  <2>1. ~Fail BY <1>5, NotFailed DEF ListSnapshots, AtCall, At
  <2>2. Len(code') = 2 /\ InFlight' = {} BY <1>5, RunStep
  <2>3. present' = snaps[tgt] /\ UNCHANGED <<snaps, job>>
    BY <1>5, <2>1 DEF ListSnapshots, disk
  <2> QED BY <2>2, <2>3 DEF Synced
<1>6. CASE LocateSnapshotIDs /\ Moves /\ mode = "run" /\ job.op = "sync"
           /\ Len(code) = 2
  <2>1. ~Fail BY <1>6, NotFailed DEF LocateSnapshotIDs, At
  <2>2. Len(code') = 1 /\ Alive /\ InFlight' = {} /\ mode' = "run"
    BY <1>6, RunStep DEF Alive, Live
  <2>3. located' = todo' /\ UNCHANGED <<present, snaps, job>>
    BY <1>6, <2>1 DEF LocateSnapshotIDs, disk
  <2>4. present = snaps[tgt] BY <1>6, <2>2 DEF Synced
  <2> QED BY <2>2, <2>3, <2>4 DEF Synced
<1>7. CASE Iterate /\ mode = "run" /\ job.op = "sync" /\ Len(code) = 1
  <2>1. PICK id \in todo :
           /\ cur' = id /\ todo' = todo \ {id}
           /\ IF Skips(id) THEN UNCHANGED <<mode, body>>
                           ELSE mode' = "iterate" /\ body' = Body(job.op)
    BY <1>7 DEF Iterate
  <2>2. /\ UNCHANGED <<code, located, present, errors, snaps, job>>
        /\ Alive /\ InFlight = {}
    BY <1>7 DEF Iterate, Alive, Live, disk, InFlight
  <2>3. /\ present \subseteq snaps[tgt] /\ todo \subseteq located
        /\ snaps[tgt] \subseteq present \cup (located \ todo)
        /\ errors = 0 => located \subseteq snaps[tgt] \cup todo
    BY <1>7, <2>2 DEF Synced
  <2>4. CASE id \in present
    <3>1. mode' = "run" /\ InFlight' = {}
      BY <1>7, <2>1, <2>4 DEF Skips, InFlight
    <3>2. /\ located' = located /\ present' = present /\ errors' = errors
          /\ todo' = todo \ {id} /\ snaps' = snaps /\ job' = job /\ code' = code
      BY <2>1, <2>2
    <3>3. /\ id \in snaps[tgt] /\ todo' \subseteq located
          /\ snaps[tgt] \subseteq present \cup (located \ todo')
          /\ errors = 0 => located \subseteq snaps[tgt] \cup todo'
      BY <2>1, <2>3, <2>4
    <3>4. Len(code') = 1 BY <1>7, <3>2
    <3> QED BY <2>3, <3>1, <3>2, <3>3, <3>4 DEF Synced
  <2>5. CASE id \notin present
    <3>1. mode' = "iterate" /\ body' = SyncBody
      BY <1>7, <2>1, <2>5 DEF Skips, Body
    <3>2. body' # <<>> BY <3>1 DEF SyncBody
    <3>3. InFlight' = {id} BY <2>1, <3>1, <3>2 DEF InFlight
    <3>4. id \notin snaps[tgt] BY <2>1, <2>3, <2>5
    <3> QED BY <1>7, <2>1, <2>2, <2>3, <3>1, <3>3, <3>4 DEF Synced
  <2> QED BY <2>4, <2>5
<1>8. CASE Synchronize /\ Moves /\ mode = "iterate" /\ job.op = "sync"
           /\ Len(body) = 1
  <2>1. /\ code' = code /\ Len(code) = 1 /\ InFlight = {cur}
        /\ Fail => mode' = "next" /\ body' = <<>> /\ errors' = errors + 1
        /\ GoOn => mode' = "iterate" /\ Len(body') = Len(body) - 1
    BY <1>8, IterationStep
  <2>2. /\ UNCHANGED <<job, present, located, todo, cur>> /\ Alive
        /\ tgt \in Locations
    BY <1>8, PayloadType DEF Synchronize, Alive, Live, Control, Connectors
  <2>3. /\ present \subseteq snaps[tgt] /\ todo \subseteq located
        /\ snaps[tgt] \subseteq present \cup (located \ (todo \cup {cur}))
        /\ errors = 0 => located \subseteq snaps[tgt] \cup todo \cup {cur}
        /\ cur \in located \ todo
    BY <1>8, <2>1, <2>2 DEF Synced
  <2>4. \/ snaps' = snaps /\ Fail
        \/ snaps' = [snaps EXCEPT ![tgt] = @ \cup {cur}] /\ Fail
        \/ snaps' = [snaps EXCEPT ![tgt] = @ \cup {cur}] /\ GoOn /\ errors' = errors
    BY <1>8 DEF Synchronize
  <2>5. snaps \in [Locations -> SUBSET IDs] BY DEF Typed, TypeOK
  <2>6. snaps'[tgt] = snaps[tgt] \/ snaps'[tgt] = snaps[tgt] \cup {cur}
    BY <2>2, <2>4, <2>5
  <2>7. body' = <<>>
    <3>1. CASE Fail BY <2>1, <3>1
    <3>2. CASE GoOn
      <4>1. Len(body') = 0 BY <1>8, <2>1, <3>2
      <4>2. Control' BY <1>8, MovesControl
      <4>3. body' = <<>> \/ LeftOf(body', Body(job'.op)) BY <4>2 DEF Control
      <4> QED BY <4>1, <4>3 DEF LeftOf
    <3> QED BY <2>4, <3>1, <3>2
  <2>8. InFlight' = {} BY <2>7 DEF InFlight
  <2>9. errors' = 0 => errors = 0 /\ snaps'[tgt] = snaps[tgt] \cup {cur}
    <3>1. CASE Fail
      <4>1. errors' # 0 BY <1>1, <2>1, <3>1
      <4> QED BY <4>1
    <3>2. CASE snaps' = [snaps EXCEPT ![tgt] = @ \cup {cur}] /\ errors' = errors
      BY <2>2, <2>5, <3>2
    <3> QED BY <2>4, <3>1, <3>2
  <2> HIDE DEF tgt
  <2>10. /\ present \subseteq snaps'[tgt] /\ todo \subseteq located
         /\ snaps'[tgt] \subseteq present \cup (located \ todo)
         /\ errors' = 0 => located \subseteq snaps'[tgt] \cup todo
    BY <2>3, <2>6, <2>9
  <2> USE DEF tgt
  <2> QED BY <2>1, <2>2, <2>3, <2>8, <2>10 DEF Synced
<1>9. CASE EndOfLoop /\ Moves /\ mode = "run" /\ job.op = "sync" /\ Len(code) = 1
  <2>1. /\ mode' = "run" /\ Len(code') = 0 /\ InFlight = {} /\ InFlight' = {}
        /\ Alive
    BY <1>9, RunStep DEF Alive, Live
  <2>2. todo = {} /\ UNCHANGED <<disk, job, loop>>
    BY <1>9 DEF EndOfLoop
  <2> QED BY <1>9, <2>1, <2>2 DEF Synced, loop, disk
<1>10. CASE job' = job /\ job.op # "sync" BY <1>10
<1> QED
  BY <1>2, <1>3, <1>4, <1>5, <1>6, <1>7, <1>8, <1>9, <1>10, Acts
  DEF Moves, Iterate
-----------------------------------------------------------------------------
(* What is open *)

\* Needs, for an operation.
NeedsOf(op, r) ==
    CASE r = "snap" /\ op = "backup"  -> {"importer", "target"}
      [] r = "snap" /\ op = "check"   -> {"source", "cache"}
      [] r = "snap" /\ op = "restore" -> {"exporter", "source"}
      [] r = "srcSnap"                -> {"source"}
      [] r \in {"dstSnap", "parent"}  -> {"target"}
      [] OTHER                        -> {}

\* A stack of closes over what base holds: each above what it needs.
Stacked(op, s, base) ==
    /\ s \in Seq(Resources)
    /\ \A i \in 1..Len(s) :
          /\ \A x \in NeedsOf(op, s[i]) : x \in base \/ \E j \in 1..(i - 1) : s[j] = x
          /\ s[i] \notin base
          /\ \A j \in 1..(i - 1) : s[j] # s[i]

\* What an operation has deferred with n steps left, where that matters.
Held(op, n, d) ==
    /\ op = "create" /\ n = 5 => d = {}
    /\ op = "test_store" /\ n = 3 => d = {}
    /\ op \in {"test_source", "test_destination"} /\ n = 2 => d = {}
    /\ op = "backup" =>
          /\ n = 9 => d = {}
          /\ n = 8 => d = {"importer"}
          /\ n \in {6, 7} => d = {"importer", "target"}
          /\ n \in {3, 4, 5} => d = {"importer", "target", "snap"}
    /\ op = "check" =>
          /\ n = 5 => d = {}
          /\ n \in {2, 3, 4} => d = {"source"}
          /\ n \in {0, 1} => d = {"source", "cache"}
    /\ op = "restore" =>
          /\ n = 6 => d = {}
          /\ n = 5 => d = {"exporter"}
          /\ n \in {2, 3, 4} => d = {"exporter", "source"}
    /\ op = "sync" =>
          /\ n = 7 => d = {}
          /\ n \in {5, 6} => d = {"source"}
          /\ n \in {0, 1, 2, 3, 4} => d = {"source", "target"}

\* What an iteration has.
HeldInside(op, n, d) ==
    /\ op = "check" /\ n = 2 => d = {}
    /\ op = "sync" =>
          /\ n = 6 => d = {}
          /\ n = 5 => d = {"srcSnap"}
          /\ n \in {3, 4} => d = {"srcSnap", "dstSnap"}

(***************************************************************************)
(* What is open is on one of the two stacks, everything above what it      *)
(* needs; an operation that returns has no iteration to close.             *)
(***************************************************************************)
Frames ==
    /\ mode # "idle" =>
          /\ open = Range(defers) \cup Range(inner)
          /\ Stacked(job.op, defers, {})
          /\ Stacked(job.op, inner, Range(defers))
    /\ mode \in {"run", "return"} => inner = <<>>
    /\ mode = "idle" /\ outcome # "killed" => open = {}
    /\ Live => Held(job.op, Len(code), Range(defers))
    /\ mode = "iterate" => HeldInside(job.op, Len(body), Range(inner))
\* The step h, with n left, fits on what is deferred.
Fits(op, n, h, d) ==
    IF h.kind = "acquire"
    THEN /\ Held(op, n - 1, d \cup {h.what})
         /\ h.onError = "go_on" => Held(op, n - 1, d)
         /\ h.what \notin d /\ NeedsOf(op, h.what) \subseteq d
    ELSE Held(op, n - 1, d)

\* Each step of create takes what it holds to what it holds next.
LEMMA CreateFits ==
    ASSUME NEW n, NEW h, CreateAt(n, h), NEW d, Held("create", n, d)
    PROVE  Fits("create", n, h, d)
<1>1. Held("create", 5, d) => Fits("create", 5, Acquire("source"), d)
  BY DEF Fits, Held, NeedsOf, Acquire
<1>2. Held("create", 4, d) => Fits("create", 4, Call("compression"), d)
  BY DEF Fits, Held, NeedsOf, Call
<1>3. Held("create", 3, d) => Fits("create", 3, Call("encryption"), d)
  BY DEF Fits, Held, NeedsOf, Call
<1>4. Held("create", 2, d) => Fits("create", 2, Call("serialize"), d)
  BY DEF Fits, Held, NeedsOf, Call
<1>5. Held("create", 1, d) => Fits("create", 1, Call("Create"), d)
  BY DEF Fits, Held, NeedsOf, Call
<1> QED BY <1>1, <1>2, <1>3, <1>4, <1>5 DEF CreateAt

\* Each step of backup takes what it holds to what it holds next.
LEMMA BackupFits ==
    ASSUME NEW n, NEW h, BackupAt(n, h), NEW d, Held("backup", n, d)
    PROVE  Fits("backup", n, h, d)
<1>1. Held("backup", 9, d) => Fits("backup", 9, Acquire("importer"), d)
  BY DEF Fits, Held, NeedsOf, Acquire
<1>2. Held("backup", 8, d) => Fits("backup", 8, Acquire("target"), d)
  BY DEF Fits, Held, NeedsOf, Acquire
<1>3. Held("backup", 7, d) => Fits("backup", 7, Repo("target"), d)
  BY DEF Fits, Held, NeedsOf, Repo
<1>4. Held("backup", 6, d) => Fits("backup", 6, Acquire("snap"), d)
  BY DEF Fits, Held, NeedsOf, Acquire
<1>5. Held("backup", 5, d) => Fits("backup", 5, Call("NewSource"), d)
  BY DEF Fits, Held, NeedsOf, Call
<1>6. Held("backup", 4, d) => Fits("backup", 4, Call("Match"), d)
  BY DEF Fits, Held, NeedsOf, Call
<1>7. Held("backup", 3, d) => Fits("backup", 3, Try("parent"), d)
  BY DEF Fits, Held, NeedsOf, Try
<1>8. Held("backup", 2, d) => Fits("backup", 2, Call("Backup"), d)
  BY DEF Fits, Held, NeedsOf, Call
<1>9. Held("backup", 1, d) => Fits("backup", 1, Call("Commit"), d)
  BY DEF Fits, Held, NeedsOf, Call
<1> QED BY <1>1, <1>2, <1>3, <1>4, <1>5, <1>6, <1>7, <1>8, <1>9 DEF BackupAt

\* Each step of check takes what it holds to what it holds next.
LEMMA CheckFits ==
    ASSUME NEW n, NEW h, CheckAt(n, h), NEW d, Held("check", n, d)
    PROVE  Fits("check", n, h, d)
<1>1. Held("check", 5, d) => Fits("check", 5, Acquire("source"), d)
  BY DEF Fits, Held, NeedsOf, Acquire
<1>2. Held("check", 4, d) => Fits("check", 4, Repo("source"), d)
  BY DEF Fits, Held, NeedsOf, Repo
<1>3. Held("check", 3, d) => Fits("check", 3, Locate, d)
  BY DEF Fits, Held, NeedsOf, Locate
<1>4. Held("check", 2, d) => Fits("check", 2, Acquire("cache"), d)
  BY DEF Fits, Held, NeedsOf, Acquire
<1>5. Held("check", 1, d) => Fits("check", 1, Each, d)
  BY DEF Fits, Held, NeedsOf, Each
<1> QED BY <1>1, <1>2, <1>3, <1>4, <1>5 DEF CheckAt

\* Each step of restore takes what it holds to what it holds next.
LEMMA RestoreFits ==
    ASSUME NEW n, NEW h, RestoreAt(n, h), NEW d, Held("restore", n, d)
    PROVE  Fits("restore", n, h, d)
<1>1. Held("restore", 6, d) => Fits("restore", 6, Acquire("exporter"), d)
  BY DEF Fits, Held, NeedsOf, Acquire
<1>2. Held("restore", 5, d) => Fits("restore", 5, Acquire("source"), d)
  BY DEF Fits, Held, NeedsOf, Acquire
<1>3. Held("restore", 4, d) => Fits("restore", 4, Repo("source"), d)
  BY DEF Fits, Held, NeedsOf, Repo
<1>4. Held("restore", 3, d) => Fits("restore", 3, Locate, d)
  BY DEF Fits, Held, NeedsOf, Locate
<1>5. Held("restore", 2, d) => Fits("restore", 2, Acquire("snap"), d)
  BY DEF Fits, Held, NeedsOf, Acquire
<1>6. Held("restore", 1, d) => Fits("restore", 1, Call("Export"), d)
  BY DEF Fits, Held, NeedsOf, Call
<1> QED BY <1>1, <1>2, <1>3, <1>4, <1>5, <1>6 DEF RestoreAt

\* Each step of sync takes what it holds to what it holds next.
LEMMA SyncFits ==
    ASSUME NEW n, NEW h, SyncAt(n, h), NEW d, Held("sync", n, d)
    PROVE  Fits("sync", n, h, d)
<1>1. Held("sync", 7, d) => Fits("sync", 7, Acquire("source"), d)
  BY DEF Fits, Held, NeedsOf, Acquire
<1>2. Held("sync", 6, d) => Fits("sync", 6, Repo("source"), d)
  BY DEF Fits, Held, NeedsOf, Repo
<1>3. Held("sync", 5, d) => Fits("sync", 5, Acquire("target"), d)
  BY DEF Fits, Held, NeedsOf, Acquire
<1>4. Held("sync", 4, d) => Fits("sync", 4, Repo("target"), d)
  BY DEF Fits, Held, NeedsOf, Repo
<1>5. Held("sync", 3, d) => Fits("sync", 3, Call("ListSnapshots"), d)
  BY DEF Fits, Held, NeedsOf, Call
<1>6. Held("sync", 2, d) => Fits("sync", 2, Locate, d)
  BY DEF Fits, Held, NeedsOf, Locate
<1>7. Held("sync", 1, d) => Fits("sync", 1, Each, d)
  BY DEF Fits, Held, NeedsOf, Each
<1> QED BY <1>1, <1>2, <1>3, <1>4, <1>5, <1>6, <1>7 DEF SyncAt

\* Each step of the test of a store does.
LEMMA TestStoreFits ==
    ASSUME NEW n, NEW h, TestStoreAt(n, h), NEW d, Held("test_store", n, d)
    PROVE  Fits("test_store", n, h, d)
<1>1. Held("test_store", 3, d) => Fits("test_store", 3, Acquire("source"), d)
  BY DEF Fits, Held, NeedsOf, Acquire
<1>2. Held("test_store", 2, d) => Fits("test_store", 2, Repo("source"), d)
  BY DEF Fits, Held, NeedsOf, Repo
<1>3. Held("test_store", 1, d) => Fits("test_store", 1, Shut("source"), d)
  BY DEF Fits, Held, NeedsOf, Shut
<1> QED BY <1>1, <1>2, <1>3 DEF TestStoreAt

\* Each step of the test of a source does.
LEMMA TestSourceFits ==
    ASSUME NEW n, NEW h, TestSourceAt(n, h), NEW d, Held("test_source", n, d)
    PROVE  Fits("test_source", n, h, d)
<1>1. Held("test_source", 2, d) => Fits("test_source", 2, Acquire("importer"), d)
  BY DEF Fits, Held, NeedsOf, Acquire
<1>2. Held("test_source", 1, d) => Fits("test_source", 1, Call("Ping"), d)
  BY DEF Fits, Held, NeedsOf, Call
<1> QED BY <1>1, <1>2 DEF TestSourceAt

\* Each step of the test of a destination does.
LEMMA TestDestinationFits ==
    ASSUME NEW n, NEW h, TestDestinationAt(n, h), NEW d, Held("test_destination", n, d)
    PROVE  Fits("test_destination", n, h, d)
<1>1. Held("test_destination", 2, d) => Fits("test_destination", 2, Acquire("exporter"), d)
  BY DEF Fits, Held, NeedsOf, Acquire
<1>2. Held("test_destination", 1, d) => Fits("test_destination", 1, Call("Ping"), d)
  BY DEF Fits, Held, NeedsOf, Call
<1> QED BY <1>1, <1>2 DEF TestDestinationAt
\* The step h of an iteration fits on what the operation and it have.
FitsInside(op, n, h, outer, d) ==
    /\ IF h.kind = "acquire"
       THEN /\ HeldInside(op, n - 1, d \cup {h.what})
            /\ h.what \notin outer \cup d /\ NeedsOf(op, h.what) \subseteq outer \cup d
       ELSE HeldInside(op, n - 1, d)
    /\ h.onError = "return" => d = {}

\* Each step of an iteration of check does.
LEMMA CheckBodyFits ==
    ASSUME NEW n, NEW h, CheckBodyAt(n, h), NEW d, HeldInside("check", n, d)
    PROVE  FitsInside("check", n, h, {"source", "cache"}, d)
<1> USE DEF FitsInside, HeldInside, NeedsOf
<1>1. HeldInside("check", 2, d) =>
        FitsInside("check", 2, Acquire("snap"), {"source", "cache"}, d)
  BY DEF Acquire
<1>2. HeldInside("check", 1, d) =>
        FitsInside("check", 1, Counted(Call("Check")), {"source", "cache"}, d)
  BY CountedStep
<1> QED BY <1>1, <1>2 DEF CheckBodyAt

\* Each step of an iteration of sync does.
LEMMA SyncBodyFits ==
    ASSUME NEW n, NEW h, SyncBodyAt(n, h), NEW d, HeldInside("sync", n, d)
    PROVE  FitsInside("sync", n, h, {"source", "target"}, d)
<1> DEFINE Fit(k, step) == HeldInside("sync", k, d) =>
                             FitsInside("sync", k, step, {"source", "target"}, d)
<1>1. Fit(6, Counted(Acquire("srcSnap")))
  BY CountedStep DEF FitsInside, HeldInside, NeedsOf
<1>2. Fit(5, Counted(Acquire("dstSnap")))
  BY CountedStep DEF FitsInside, HeldInside, NeedsOf
<1>3. Fit(4, Counted(Call("Match")))
  BY CountedStep DEF FitsInside, HeldInside, NeedsOf
<1>4. Fit(3, Counted(Acquire("parent")))
  BY CountedStep DEF FitsInside, HeldInside, NeedsOf
<1>5. Fit(2, Counted(Call("FilesystemWithCache")))
  BY CountedStep DEF FitsInside, HeldInside, NeedsOf
<1>6. Fit(1, Counted(Call("Synchronize")))
  BY CountedStep DEF FitsInside, HeldInside, NeedsOf
<1> QED BY <1>1, <1>2, <1>3, <1>4, <1>5, <1>6 DEF SyncBodyAt

\* So the steps of every operation fit the table of what is held.
LEMMA CodeFits ==
    ASSUME NEW op \in Ops, NEW s, LeftOf(s, Code(op)), s # <<>>,
           NEW d, Held(op, Len(s), d)
    PROVE  Fits(op, Len(s), Head(s), d)
<1>1. CASE op = "create" BY <1>1, CreateSteps, CreateFits DEF Code
<1>2. CASE op = "backup" BY <1>2, BackupSteps, BackupFits DEF Code
<1>3. CASE op = "check" BY <1>3, CheckSteps, CheckFits DEF Code
<1>4. CASE op = "restore" BY <1>4, RestoreSteps, RestoreFits DEF Code
<1>5. CASE op = "sync" BY <1>5, SyncSteps, SyncFits DEF Code
<1>6. CASE op = "test_store" BY <1>6, TestStoreSteps, TestStoreFits DEF Code
<1>7. CASE op = "test_source" BY <1>7, TestSourceSteps, TestSourceFits DEF Code
<1>8. CASE op = "test_destination"
  BY <1>8, TestDestinationSteps, TestDestinationFits DEF Code
<1> QED BY <1>1, <1>2, <1>3, <1>4, <1>5, <1>6, <1>7, <1>8 DEF Ops

\* And so do the steps of every iteration.
LEMMA BodyFits ==
    ASSUME NEW op \in {"check", "sync"}, NEW s, LeftOf(s, Body(op)), s # <<>>,
           NEW outer, Held(op, 1, outer), NEW d, HeldInside(op, Len(s), d)
    PROVE  FitsInside(op, Len(s), Head(s), outer, d)
<1>1. CASE op = "check"
  <2>1. outer = {"source", "cache"} BY <1>1 DEF Held
  <2>2. Body(op) = CheckBody BY <1>1 DEF Body
  <2> QED BY <1>1, <2>1, <2>2, CheckBodySteps, CheckBodyFits
<1>2. CASE op = "sync"
  <2>1. outer = {"source", "target"} BY <1>2 DEF Held
  <2>2. Body(op) = SyncBody BY <1>2 DEF Body
  <2> QED BY <1>2, <2>1, <2>2, SyncBodySteps, SyncBodyFits
<1> QED BY <1>1, <1>2

\* Stacks under a push and a pop.
LEMMA StackedPush ==
    ASSUME NEW op, NEW s, NEW base, Stacked(op, s, base),
           NEW r \in Resources, r \notin base \cup Range(s),
           NeedsOf(op, r) \subseteq base \cup Range(s)
    PROVE  /\ Stacked(op, Append(s, r), base)
           /\ Range(Append(s, r)) = Range(s) \cup {r}
<1>1. s \in Seq(Resources) /\ Len(s) \in Nat BY DEF Stacked
<1>2. /\ Append(s, r) \in Seq(Resources) /\ Len(Append(s, r)) = Len(s) + 1
      /\ \A i \in 1..Len(s) : Append(s, r)[i] = s[i]
      /\ Append(s, r)[Len(s) + 1] = r
  BY <1>1
<1>3. Range(s) = {s[i] : i \in 1..Len(s)} BY <1>1 DEF Range
<1>4. DOMAIN Append(s, r) = 1..(Len(s) + 1) BY <1>2
<1>5. Range(Append(s, r)) = Range(s) \cup {r}
  BY <1>1, <1>2, <1>3, <1>4 DEF Range
<1>6. ASSUME NEW i \in 1..(Len(s) + 1)
      PROVE  /\ \A x \in NeedsOf(op, Append(s, r)[i]) :
                   x \in base \/ \E j \in 1..(i - 1) : Append(s, r)[j] = x
             /\ Append(s, r)[i] \notin base
             /\ \A j \in 1..(i - 1) : Append(s, r)[j] # Append(s, r)[i]
  <2>1. CASE i = Len(s) + 1
    <3>1. i - 1 = Len(s) BY <1>1, <2>1
    <3> QED BY <1>2, <1>3, <2>1, <3>1
  <2>2. CASE i \in 1..Len(s)
    <3>1. \A j \in 1..(i - 1) : j \in 1..Len(s) BY <1>1, <2>2
    <3> QED BY <1>2, <2>2, <3>1 DEF Stacked
  <2> QED BY <1>1, <2>1, <2>2
<1> QED BY <1>2, <1>5, <1>6 DEF Stacked

\* Closing the top of a well-stacked stack leaves it well stacked.
LEMMA StackedPop ==
    ASSUME NEW op, NEW s, NEW base, Stacked(op, s, base), s # <<>>
    PROVE  /\ Stacked(op, Front(s), base)
           /\ Range(Front(s)) = Range(s) \ {Last(s)}
           /\ Last(s) \notin base
<1>1. s \in Seq(Resources) /\ Len(s) \in Nat /\ Len(s) >= 1 BY DEF Stacked
<1>2. /\ Front(s) \in Seq(Resources) /\ Len(Front(s)) = Len(s) - 1
      /\ \A i \in 1..(Len(s) - 1) : Front(s)[i] = s[i]
      /\ Last(s) = s[Len(s)]
  <2>1. Front(s) = SubSeq(s, 1, Len(s) - 1) /\ Last(s) = s[Len(s)]
    BY DEF Front, Last
  <2>2. Front(s) \in Seq(Resources) BY <1>1, FrontType
  <2>3. Len(SubSeq(s, 1, Len(s) - 1)) = Len(s) - 1 BY <1>1
  <2>4. ASSUME NEW i \in 1..(Len(s) - 1)
        PROVE  SubSeq(s, 1, Len(s) - 1)[i] = s[i]
    BY <1>1
  <2> QED BY <2>1, <2>2, <2>3, <2>4
<1>3. Range(s) = {s[i] : i \in 1..Len(s)} BY <1>1 DEF Range
<1>4. Range(Front(s)) = {Front(s)[i] : i \in 1..(Len(s) - 1)}
  BY <1>1, <1>2 DEF Range
<1>5. Len(s) \in 1..Len(s) /\ \A i \in 1..(Len(s) - 1) : i \in 1..Len(s)
  BY <1>1
<1>6. \A j \in 1..(Len(s) - 1) : s[j] # Last(s)
  BY <1>2, <1>5 DEF Stacked
<1>7. \A i \in 1..Len(s) : i = Len(s) \/ i \in 1..(Len(s) - 1) BY <1>1
<1>8. Range(Front(s)) = Range(s) \ {Last(s)}
  BY <1>2, <1>3, <1>4, <1>5, <1>6, <1>7
<1>9. Last(s) \notin base BY <1>2, <1>5 DEF Stacked
<1>10. ASSUME NEW i \in 1..(Len(s) - 1)
       PROVE  /\ \A x \in NeedsOf(op, Front(s)[i]) :
                    x \in base \/ \E j \in 1..(i - 1) : Front(s)[j] = x
              /\ Front(s)[i] \notin base
              /\ \A j \in 1..(i - 1) : Front(s)[j] # Front(s)[i]
  <2>1. i \in 1..Len(s) /\ \A j \in 1..(i - 1) : j \in 1..(Len(s) - 1)
    BY <1>1
  <2>2. /\ \A x \in NeedsOf(op, s[i]) : x \in base \/ \E j \in 1..(i - 1) : s[j] = x
        /\ s[i] \notin base
        /\ \A j \in 1..(i - 1) : s[j] # s[i]
    BY <2>1 DEF Stacked
  <2>3. Front(s)[i] = s[i] /\ \A j \in 1..(i - 1) : Front(s)[j] = s[j]
    BY <1>2, <2>1
  <2> QED BY <2>2, <2>3
<1> QED BY <1>2, <1>8, <1>9, <1>10 DEF Stacked

\* A well-stacked stack that is empty holds nothing.
LEMMA StackedEmpty ==
    ASSUME NEW op, NEW base
    PROVE  Stacked(op, <<>>, base) /\ Range(<<>>) = {}
<1>1. <<>> \in Seq(Resources) /\ Len(<<>>) = 0 /\ DOMAIN <<>> = {} OBVIOUS
<1> QED BY <1>1 DEF Stacked, Range

\* Everything on a stack finds what it needs.
LEMMA StackedNeeds ==
    ASSUME NEW op, NEW s, NEW base, Stacked(op, s, base), NEW r \in Range(s)
    PROVE  NeedsOf(op, r) \subseteq base \cup Range(s)
<1>1. s \in Seq(Resources) /\ Len(s) \in Nat BY DEF Stacked
<1>2. Range(s) = {s[i] : i \in 1..Len(s)} BY <1>1 DEF Range
<1>3. PICK i \in 1..Len(s) : r = s[i] BY <1>2
<1>4. \A j \in 1..(i - 1) : j \in 1..Len(s) BY <1>1
<1> QED BY <1>2, <1>3, <1>4 DEF Stacked
\* An operation starts with nothing held.
LEMMA HeldStart == \A op \in Ops : Held(op, Len(Code(op)), {})
<1>1. /\ Len(Code("test_source")) = 2 /\ Len(Code("test_destination")) = 2
  BY DEF Code, TestSourceCode, TestDestinationCode
<1>2. /\ Held("create", 5, {}) /\ Held("backup", 9, {}) /\ Held("check", 5, {})
      /\ Held("restore", 6, {}) /\ Held("sync", 7, {})
      /\ Held("test_store", 3, {}) /\ Held("test_source", 2, {})
      /\ Held("test_destination", 2, {})
  BY DEF Held
<1> QED BY <1>1, <1>2, CodeLen DEF Ops

\* A step that acquires nothing.
LEMMA MovesFrames ==
    ASSUME Control, Typed, Frames, Moves, UNCHANGED <<defers, inner, open>>,
           mode = "run" /\ GoOn =>
               Head(Steps).kind # "acquire" \/ Head(Steps).onError = "go_on",
           mode = "iterate" =>
               \/ Fail
               \/ GoOn /\ Head(Steps).kind # "acquire"
               \/ body' = <<Last(body)>> /\ UNCHANGED <<code, mode, outcome>>
    PROVE  Frames'
<1>1. /\ mode \in {"run", "iterate"} /\ Steps # <<>> /\ job' = job
      /\ UNCHANGED <<defers, inner, open>>
  BY DEF Moves
<1>2. Control' BY MovesControl
<1>3. /\ open' = Range(defers') \cup Range(inner')
      /\ Stacked(job'.op, defers', {})
      /\ Stacked(job'.op, inner', Range(defers'))
  BY <1>1 DEF Frames
<1>4. CASE mode = "run"
  <2>1. /\ inner' = <<>> /\ Held(job.op, Len(code), Range(defers))
        /\ LeftOf(code, Code(job.op)) /\ code # <<>> /\ job.op \in Ops
        /\ Steps = code
    BY <1>1, <1>4, HeadType DEF Frames, Live
  <2>2. Fits(job.op, Len(code), Head(code), Range(defers)) BY <2>1, CodeFits
  <2>3. ASSUME NEW result, Return(result) PROVE Frames'
    <3>1. mode' = "return" BY <2>3 DEF Return
    <3> QED BY <1>3, <2>1, <3>1 DEF Frames, Live
  <2>4. CASE GoOn
    <3>1. mode' = "run" /\ code' = Tail(code) BY <1>4, <2>4 DEF GoOn, Iterating
    <3>2. Len(code') = Len(code) - 1 BY <2>1, <3>1, CodeType, LeftOfTail
    <3>3. Held(job.op, Len(code) - 1, Range(defers))
      BY <1>4, <2>1, <2>2, <2>4 DEF Fits
    <3> QED BY <1>1, <1>3, <2>1, <3>1, <3>2, <3>3 DEF Frames, Live
  <2>5. Head(code).onError # "count" BY <2>1, CodeStep
  <2> QED BY <1>4, <2>1, <2>3, <2>4, <2>5 DEF Moves, Fail, Iterating
<1>5. CASE mode = "iterate"
  <2>1. /\ Held(job.op, Len(code), Range(defers)) /\ Len(code) = 1
        /\ HeldInside(job.op, Len(body), Range(inner))
        /\ LeftOf(body, Body(job.op)) /\ body # <<>>
        /\ job.op \in {"check", "sync"} /\ Steps = body
    BY <1>1, <1>5, HeadType DEF Frames, Live, Control
  <2>2. FitsInside(job.op, Len(body), Head(body), Range(defers), Range(inner))
    BY <2>1, BodyFits
  <2>3. CASE Fail
    <3>1. Head(body).onError # "go_on" BY <2>1, BodyStep
    <3>2. CASE Head(body).onError = "return" /\ Return("error")
      <4>1. Range(inner) = {} BY <2>2, <3>2 DEF FitsInside
      <4>2. inner = <<>>
        <5>1. inner \in Seq(Resources) BY DEF Typed, TypeOK
        <5>2. inner # <<>> => 1 \in DOMAIN inner BY <5>1
        <5> QED BY <4>1, <5>2 DEF Range
      <4> QED BY <1>1, <1>3, <3>2, <4>2 DEF Frames, Return, Live
    <3>3. CASE mode' = "next" /\ UNCHANGED code
      BY <1>1, <1>3, <2>1, <3>3 DEF Frames, Live
    <3> QED BY <2>1, <2>3, <3>1, <3>2, <3>3 DEF Fail
  <2>4. CASE GoOn /\ Head(Steps).kind # "acquire"
    <3>1. mode' = "iterate" /\ body' = Tail(body) /\ code' = code
      BY <1>5, <2>4 DEF GoOn, Iterating
    <3>2. Len(body') = Len(body) - 1
      BY <2>1, <3>1, CodeType, LeftOfTail DEF Ops
    <3>3. HeldInside(job.op, Len(body) - 1, Range(inner))
      BY <2>1, <2>2, <2>4 DEF FitsInside
    <3> QED BY <1>1, <1>3, <2>1, <3>1, <3>2, <3>3 DEF Frames, Live
  <2>5. CASE body' = <<Last(body)>> /\ UNCHANGED <<code, mode, outcome>>
    <3>1. Len(body') = 1 BY <2>5
    <3>2. HeldInside(job.op, 1, Range(inner)) BY <2>1 DEF HeldInside
    <3> QED BY <1>1, <1>3, <1>5, <2>1, <2>5, <3>1, <3>2 DEF Frames, Live
  <2> QED BY <1>5, <2>3, <2>4, <2>5
<1> QED BY <1>1, <1>4, <1>5

\* A step that does.
LEMMA AcquireFrames ==
    ASSUME Control, Typed, Frames, AcquireStep PROVE Frames'
<1>1. Moves /\ At("acquire") BY StepMoves DEF StepAction, AcquireStep
<1>2. CASE Fail /\ UNCHANGED frames
  <2>1. /\ mode \in {"run", "iterate"} /\ Steps # <<>> /\ job.op \in Ops
        /\ mode = "run" => LeftOf(code, Code(job.op)) /\ Steps = code
    BY <1>1, HeadType DEF Moves
  <2>2. mode = "run" /\ GoOn => Head(Steps).onError = "go_on"
    BY <1>2, <2>1, CodeStep DEF Fail, Return, GoOn
  <2> QED BY <1>1, <1>2, <2>2, MovesFrames DEF frames
<1>3. ASSUME GoOn, NEW r, r = Head(Steps).what, open' = open \cup {r},
             IF Iterating
             THEN inner' = Deferred(inner, r) /\ UNCHANGED defers
             ELSE defers' = Deferred(defers, r) /\ UNCHANGED inner
      PROVE  Frames'
  <2>1. /\ mode \in {"run", "iterate"} /\ Steps # <<>> /\ job.op \in Ops
        /\ Head(Steps) \in StepType /\ Head(Steps).kind = "acquire" /\ job' = job
        /\ open = Range(defers) \cup Range(inner)
        /\ Stacked(job.op, defers, {}) /\ Stacked(job.op, inner, Range(defers))
    BY <1>1, HeadType DEF Moves, At, Frames
  <2>2. r \in Resources BY <1>3, <2>1 DEF StepType
  <2>3. CASE mode = "run"
    <3>1. /\ inner = <<>> /\ Held(job.op, Len(code), Range(defers))
          /\ LeftOf(code, Code(job.op)) /\ code # <<>> /\ Steps = code
      BY <2>1, <2>3, HeadType DEF Frames, Live
    <3>2. Fits(job.op, Len(code), Head(code), Range(defers))
      BY <2>1, <3>1, CodeFits
    <3>3. /\ Held(job.op, Len(code) - 1, Range(defers) \cup {r})
          /\ r \notin Range(defers) /\ NeedsOf(job.op, r) \subseteq Range(defers)
      BY <1>3, <2>1, <3>1, <3>2 DEF Fits
    <3>4. /\ Stacked(job.op, Append(defers, r), {})
          /\ Range(Append(defers, r)) = Range(defers) \cup {r}
      BY <2>1, <2>2, <3>3, StackedPush
    <3>5. /\ mode' = "run" /\ code' = Tail(code) /\ inner' = <<>>
          /\ defers' = Append(defers, r)
      BY <1>3, <2>3, <3>1 DEF GoOn, Iterating, Deferred
    <3>6. Len(code') = Len(code) - 1
      BY <2>1, <3>1, <3>5, CodeType, LeftOfTail
    <3>7. Stacked(job.op, inner', Range(defers')) /\ Range(inner') = {}
      BY <3>5, StackedEmpty
    <3>8. Range(inner) = {} BY <3>1, StackedEmpty
    <3> QED
      BY <1>3, <2>1, <3>3, <3>4, <3>5, <3>6, <3>7, <3>8 DEF Frames, Live
  <2>4. CASE mode = "iterate"
    <3>1. /\ Held(job.op, Len(code), Range(defers)) /\ Len(code) = 1
          /\ HeldInside(job.op, Len(body), Range(inner))
          /\ LeftOf(body, Body(job.op)) /\ body # <<>>
          /\ job.op \in {"check", "sync"} /\ Steps = body
      BY <2>1, <2>4, HeadType DEF Frames, Live, Control
    <3>2. FitsInside(job.op, Len(body), Head(body), Range(defers), Range(inner))
      BY <3>1, BodyFits
    <3>3. /\ HeldInside(job.op, Len(body) - 1, Range(inner) \cup {r})
          /\ r \notin Range(defers) \cup Range(inner)
          /\ NeedsOf(job.op, r) \subseteq Range(defers) \cup Range(inner)
      BY <1>3, <2>1, <3>1, <3>2 DEF FitsInside
    <3>4. /\ Stacked(job.op, Append(inner, r), Range(defers))
          /\ Range(Append(inner, r)) = Range(inner) \cup {r}
      BY <2>1, <2>2, <3>3, StackedPush
    <3>5. /\ mode' = "iterate" /\ body' = Tail(body) /\ code' = code
          /\ inner' = Append(inner, r) /\ defers' = defers
      BY <1>3, <2>4 DEF GoOn, Iterating, Deferred
    <3>6. Len(body') = Len(body) - 1
      BY <2>1, <3>1, <3>5, CodeType, LeftOfTail
    <3> QED BY <1>3, <2>1, <3>1, <3>3, <3>4, <3>5, <3>6 DEF Frames, Live
  <2> QED BY <2>1, <2>3, <2>4
<1> QED BY <1>2, <1>3 DEF AcquireStep
\* Every step keeps the stacks and the open resources in agreement.
LEMMA NextFrames == ASSUME Control, Typed, Frames, Next PROVE Frames'
<1>1. CASE Start
  <2>1. /\ open' = {} /\ defers' = <<>> /\ inner' = <<>> /\ job' \in Payloads
        /\ \/ mode' = "run" /\ code' = Code(job'.op)
           \/ mode' = "idle"
    BY <1>1 DEF Start
  <2>2. Held(job'.op, Len(Code(job'.op)), {}) BY <2>1, PayloadType, HeldStart
  <2>3. /\ Stacked(job'.op, <<>>, {}) /\ Range(<<>>) = {} BY StackedEmpty
  <2> QED BY <2>1, <2>2, <2>3 DEF Frames, Live
<1>2. CASE Kill BY <1>2 DEF Kill, Frames, Live
<1>3. CASE AcquireStep BY <1>3, AcquireFrames
<1>4. CASE CallStep
  <2>1. Moves BY <1>4, StepMoves DEF StepAction
  <2> QED BY <1>4, <2>1, MovesFrames DEF CallStep, At, frames
<1>5. CASE OpenRepo
  <2>1. Moves BY <1>5, StepMoves DEF StepAction
  <2>2. mode = "run" BY <1>5, AtRepo DEF OpenRepo
  <2> QED BY <1>5, <2>1, <2>2, MovesFrames DEF OpenRepo, At
<1>6. CASE StoreCreate
  <2>1. Moves BY <1>6, StepMoves DEF StepAction
  <2> QED BY <1>6, <2>1, MovesFrames DEF StoreCreate, AtCall, At, frames
<1>7. CASE Commit
  <2>1. Moves BY <1>7, StepMoves DEF StepAction
  <2> QED BY <1>7, <2>1, MovesFrames DEF Commit, AtCall, At, frames
<1>8. CASE ListSnapshots
  <2>1. Moves BY <1>8, StepMoves DEF StepAction
  <2> QED BY <1>8, <2>1, MovesFrames DEF ListSnapshots, AtCall, At, frames
<1>9. CASE LocateSnapshotIDs
  <2>1. Moves BY <1>9, StepMoves DEF StepAction
  <2> QED BY <1>9, <2>1, MovesFrames DEF LocateSnapshotIDs, At, frames
<1>10. CASE Export
  <2>1. Moves BY <1>10, StepMoves DEF StepAction
  <2> QED BY <1>10, <2>1, MovesFrames DEF Export, AtCall, At, frames
<1>11. CASE Check
  <2>1. Moves BY <1>11, StepMoves DEF StepAction
  <2> QED BY <1>11, <2>1, MovesFrames DEF Check, AtCall, At, frames
<1>12. CASE Synchronize
  <2>1. Moves BY <1>12, StepMoves DEF StepAction
  <2> QED BY <1>12, <2>1, MovesFrames DEF Synchronize, AtCall, At, frames
<1>13. CASE Iterate
  <2>1. /\ mode = "run" /\ job.op \in {"check", "sync"} /\ Len(code) = 1
        /\ UNCHANGED <<job, code, defers, inner, open>>
        /\ \/ mode' = "run"
           \/ mode' = "iterate" /\ body' = Body(job.op)
    <3>1. PICK id \in todo : IF Skips(id) THEN UNCHANGED <<mode, body>>
                             ELSE mode' = "iterate" /\ body' = Body(job.op)
      BY <1>13 DEF Iterate
    <3> QED BY <1>13, <3>1, AtEach DEF Iterate, frames
  <2>2. inner = <<>> /\ Range(inner) = {} BY <2>1, StackedEmpty DEF Frames
  <2>3. HeldInside(job.op, Len(Body(job.op)), {})
    <3>1. Len(Body("check")) = 2 /\ Len(Body("sync")) = 6
      BY DEF Body, CheckBody, SyncBody
    <3>2. HeldInside("check", 2, {}) /\ HeldInside("sync", 6, {})
      BY DEF HeldInside
    <3> QED BY <2>1, <3>1, <3>2
  <2> QED BY <2>1, <2>2, <2>3 DEF Frames, Live
<1>14. CASE EndOfBody
  BY <1>14 DEF EndOfBody, Iterating, frames, Frames, Live
<1>15. CASE CloseInner
  <2>1. /\ mode = "next" /\ UNCHANGED <<job, code, defers>>
        /\ open = Range(defers) \cup Range(inner)
        /\ Stacked(job.op, defers, {}) /\ Stacked(job.op, inner, Range(defers))
        /\ Held(job.op, Len(code), Range(defers))
    BY <1>15 DEF CloseInner, Frames, Live
  <2>2. CASE inner # <<>> /\ open' = open \ {Last(inner)} /\ inner' = Front(inner)
             /\ mode' = "next"
    <3>1. /\ Stacked(job.op, Front(inner), Range(defers))
          /\ Range(Front(inner)) = Range(inner) \ {Last(inner)}
          /\ Last(inner) \notin Range(defers)
      BY <2>1, <2>2, StackedPop
    <3> QED BY <2>1, <2>2, <3>1 DEF Frames, Live
  <2>3. CASE inner = <<>> /\ mode' = "run" /\ UNCHANGED <<inner, open>>
    BY <2>1, <2>3 DEF Frames, Live
  <2> QED BY <1>15, <2>1, <2>2, <2>3 DEF CloseInner, IterationClosed
<1>16. CASE EndOfLoop
  <2>1. /\ Moves /\ mode = "run" /\ Head(Steps).kind = "each"
    BY <1>16, AtEach DEF EndOfLoop, Moves, At
  <2> QED BY <1>16, <2>1, MovesFrames DEF EndOfLoop, frames
<1>17. CASE EndOfCode
  BY <1>17 DEF EndOfCode, Return, frames, Frames, Live
<1>18. CASE CloseDeferred
  <2>1. /\ mode = "return" /\ UNCHANGED <<job, inner>> /\ inner = <<>>
        /\ open = Range(defers) \cup Range(inner)
        /\ Stacked(job.op, defers, {})
    BY <1>18 DEF CloseDeferred, Frames
  <2>2. /\ \A base : Stacked(job.op, <<>>, base)
        /\ Range(<<>>) = {}
    BY StackedEmpty
  <2>3. CASE defers # <<>> /\ open' = open \ {Last(defers)}
             /\ defers' = Front(defers) /\ mode' = "return"
    <3>1. /\ Stacked(job.op, Front(defers), {})
          /\ Range(Front(defers)) = Range(defers) \ {Last(defers)}
      BY <2>1, <2>3, StackedPop
    <3> QED BY <2>1, <2>2, <2>3, <3>1 DEF Frames, Live
  <2>4. CASE defers = <<>> /\ mode' = "idle" /\ UNCHANGED <<defers, open>>
    BY <2>1, <2>2, <2>4 DEF Frames, Live
  <2> QED BY <1>18, <2>1, <2>3, <2>4 DEF CloseDeferred
<1>19. CASE Finished
  BY <1>19 DEF Finished, vars, frames, Frames, Live
<1>20. CASE CloseRepo
  <2>1. Moves BY <1>20, StepMoves DEF StepAction
  <2>2. mode = "run" BY <1>20, AtShut DEF CloseRepo
  <2> QED BY <1>20, <2>1, <2>2, MovesFrames DEF CloseRepo, At
<1> QED
  BY <1>1, <1>2, <1>3, <1>4, <1>5, <1>6, <1>7, <1>8, <1>9, <1>10, <1>11, <1>12,
     <1>13, <1>14, <1>15, <1>16, <1>17, <1>18, <1>19, <1>20
  DEF Next
-----------------------------------------------------------------------------
(* The repositories *)

\* The repositories open with n steps left.
ReposAt(op, n) ==
    CASE op = "backup" /\ n <= 6                 -> {"target"}
      [] op \in {"check", "restore"} /\ n <= 3    -> {"source"}
      [] op = "sync" /\ n <= 3                   -> {"source", "target"}
      [] op = "sync" /\ n \in {4, 5}             -> {"source"}
      [] op = "test_store" /\ n = 1              -> {"source"}
      [] OTHER                                   -> {}

(***************************************************************************)
(* The number of steps left says which repositories are open; one that is  *)
(* open when the operation returns has no code to close it.                *)
(***************************************************************************)
Repositories ==
    /\ Live => repos = ReposAt(job.op, Len(code))
    /\ outcome = "ok" => repos = NeverClosed(job.op)
    /\ ~Live /\ outcome # "killed" => repos \subseteq NeverClosed(job.op)

\* A step that opens and closes none leaves the ones open at the next step.
LEMMA ReposKept ==
    ASSUME NEW op \in Ops, NEW s, LeftOf(s, Code(op)), s # <<>>,
           Head(s).kind \notin {"openrepo", "closerepo"}
    PROVE  /\ ReposAt(op, Len(s) - 1) = ReposAt(op, Len(s))
           /\ ReposAt(op, Len(s)) \subseteq NeverClosed(op)
<1> DEFINE n == Len(s)
<1>1. /\ op \in {"check", "restore"} => n # 4
      /\ op = "backup" => n # 7
      /\ op = "sync" => n # 4 /\ n # 6
      /\ op = "test_store" => n # 1 /\ n # 2
  BY Milestone
<1>2. n \in Nat /\ n # 0 BY DEF LeftOf
<1> HIDE DEF n
<1>3. ReposAt(op, n - 1) = ReposAt(op, n) BY <1>1, <1>2 DEF ReposAt
<1>4. ReposAt(op, n) \subseteq NeverClosed(op)
  BY <1>1, <1>2 DEF ReposAt, NeverClosed
<1> QED BY <1>3, <1>4 DEF n

\* A step goes on, or returns an error or panics.
LEMMA MovesOrEnds ==
    ASSUME Control, Moves
    PROVE  Live' \/ (mode' = "return" /\ outcome' \in {"error", "panic"})
<1>1. GoOn => Live' BY DEF GoOn, Moves, Live
<1>2. \A r \in {"error", "panic"} : Return(r) => mode' = "return" /\ outcome' = r
  BY DEF Return
<1>3. Fail => Live' \/ (mode' = "return" /\ outcome' = "error")
  BY <1>1, <1>2 DEF Fail, Live
<1> QED BY <1>1, <1>2, <1>3 DEF Moves, Live

\* A step that opens and closes no repository.
LEMMA MovesRepos ==
    ASSUME Control, Typed, Repositories, Moves, UNCHANGED repos,
           Head(Steps).kind \notin {"openrepo", "closerepo"}
    PROVE  Repositories'
<1>1. /\ mode \in {"run", "iterate"} /\ job' = job /\ Live
      /\ repos = ReposAt(job.op, Len(code))
  BY DEF Moves, Repositories, Live
<1>2. /\ job.op \in Ops /\ LeftOf(code, Code(job.op))
      /\ mode = "iterate" => job.op \in {"check", "sync"} /\ Len(code) = 1
  BY <1>1, HeadType DEF Moves, Control
<1>3. CASE mode = "run"
  <2>1. Steps = code /\ code # <<>> BY <1>1, <1>3, HeadType DEF Moves
  <2>2. /\ ReposAt(job.op, Len(code) - 1) = repos
        /\ repos \subseteq NeverClosed(job.op)
    BY <1>1, <1>2, <2>1, ReposKept
  <2>3. CASE Live'
    <3>1. Len(code') = Len(code) - 1 /\ outcome' = "none"
      BY <1>3, <2>3, RunStep DEF Alive
    <3> QED BY <1>1, <2>2, <2>3, <3>1 DEF Repositories
  <2>4. CASE mode' = "return" /\ outcome' \in {"error", "panic"}
    BY <1>1, <2>2, <2>4 DEF Repositories, Live
  <2> QED BY <2>3, <2>4, MovesOrEnds
<1>4. CASE mode = "iterate"
  <2>1. repos \subseteq NeverClosed(job.op)
    BY <1>1, <1>2, <1>4 DEF ReposAt, NeverClosed
  <2>2. CASE Live'
    <3>1. code' = code /\ outcome' = "none"
      BY <1>4, <2>2, IterationStep DEF Alive
    <3> QED BY <1>1, <2>2, <3>1 DEF Repositories
  <2>3. CASE mode' = "return" /\ outcome' \in {"error", "panic"}
    BY <1>1, <2>1, <2>3 DEF Repositories, Live
  <2> QED BY <2>2, <2>3, MovesOrEnds
<1> QED BY <1>1, <1>3, <1>4

\* openrepo opens the one its step names.
LEMMA OpenRepos ==
    ASSUME Control, Typed, Repositories, OpenRepo PROVE Repositories'
<1>1. Moves /\ At("openrepo") /\ job' = job
  BY StepMoves DEF StepAction, OpenRepo
<1>2. /\ mode = "run" /\ Live /\ repos = ReposAt(job.op, Len(code))
      /\ Head(Steps).onError = "return"
  BY <1>1, AtRepo DEF Repositories, Live
<1> DEFINE w == Head(Steps).what
<1>3. \/ job.op \in {"check", "restore"} /\ Len(code) = 4 /\ w = "source"
      \/ job.op = "backup" /\ Len(code) = 7 /\ w = "target"
      \/ job.op = "sync" /\ Len(code) = 6 /\ w = "source"
      \/ job.op = "sync" /\ Len(code) = 4 /\ w = "target"
      \/ job.op = "test_store" /\ Len(code) = 2 /\ w = "source"
  BY <1>1, AtRepo
<1>4. CASE GoOn /\ repos' = repos \cup {w}
  <2>1. Live' BY <1>2, <1>4 DEF GoOn, Live
  <2>2. Len(code') = Len(code) - 1 /\ outcome' = "none"
    BY <1>1, <1>2, <2>1, RunStep DEF Alive
  <2>3. repos' = ReposAt(job.op, Len(code) - 1)
    <3> HIDE DEF w
    <3>1. CASE job.op \in {"check", "restore"} /\ Len(code) = 4 /\ w = "source"
      BY <1>2, <1>4, <3>1 DEF ReposAt
    <3>2. CASE job.op = "backup" /\ Len(code) = 7 /\ w = "target"
      BY <1>2, <1>4, <3>2 DEF ReposAt
    <3>3. CASE job.op = "sync" /\ Len(code) = 6 /\ w = "source"
      BY <1>2, <1>4, <3>3 DEF ReposAt
    <3>4. CASE job.op = "sync" /\ Len(code) = 4 /\ w = "target"
      BY <1>2, <1>4, <3>4 DEF ReposAt
    <3>5. CASE job.op = "test_store" /\ Len(code) = 2 /\ w = "source"
      BY <1>2, <1>4, <3>5 DEF ReposAt
    <3> QED BY <1>3, <3>1, <3>2, <3>3, <3>4, <3>5
  <2> QED BY <1>1, <2>1, <2>2, <2>3 DEF Repositories
<1>5. ASSUME repos' = repos, NEW r \in {"error", "panic"}, Return(r)
      PROVE  Repositories'
  <2>1. repos \subseteq NeverClosed(job.op)
    <3> HIDE DEF w
    <3> QED BY <1>2, <1>3 DEF ReposAt, NeverClosed
  <2>2. mode' = "return" /\ outcome' \in {"error", "panic"} BY <1>5 DEF Return
  <2> QED BY <1>1, <1>5, <2>1, <2>2 DEF Repositories, Live
<1>6. Fail => Return("error") BY <1>2 DEF Fail
<1> QED BY <1>4, <1>5, <1>6 DEF OpenRepo

\* Every step keeps the number of steps left and the repositories together.
LEMMA NextRepos == ASSUME Control, Typed, Repositories, Next PROVE Repositories'
<1>1. CASE Start
  <2>1. repos' = {} /\ outcome' # "ok" /\ outcome' # "killed" BY <1>1 DEF Start
  <2>2. CASE Live'
    <3>1. /\ job'.op \in {"create", "check"} => Len(code') = 5
          /\ job'.op = "backup" => Len(code') = 9
          /\ job'.op = "restore" => Len(code') = 6
          /\ job'.op = "sync" => Len(code') = 7
          /\ job'.op = "test_store" => Len(code') = 3
      BY <1>1, <2>2, Started DEF Alive
    <3>2. /\ ReposAt("backup", 9) = {} /\ ReposAt("check", 5) = {}
          /\ ReposAt("restore", 6) = {} /\ ReposAt("sync", 7) = {}
          /\ ReposAt("test_store", 3) = {}
      BY DEF ReposAt
    <3>3. ASSUME NEW op, op \notin {"backup", "check", "restore", "sync", "test_store"}
          PROVE  \A n : ReposAt(op, n) = {}
      BY <3>3 DEF ReposAt
    <3>4. ReposAt(job'.op, Len(code')) = {}
      <4> DEFINE op == job'.op
                 n == Len(code')
      <4>1. /\ op = "check" => n = 5
            /\ op = "backup" => n = 9
            /\ op = "restore" => n = 6
            /\ op = "sync" => n = 7
            /\ op = "test_store" => n = 3
        BY <3>1
      <4> HIDE DEF op, n
      <4>2. ReposAt(op, n) = {} BY <3>2, <3>3, <4>1
      <4> QED BY <4>2 DEF op, n
    <3> QED BY <2>1, <2>2, <3>4 DEF Repositories
  <2>3. CASE ~Live' BY <2>1, <2>3 DEF Repositories
  <2> QED BY <2>2, <2>3
<1>2. CASE Kill BY <1>2 DEF Kill, Repositories, Live
<1>3. CASE OpenRepo BY <1>3, OpenRepos
<1>4. CASE CloseRepo
  <2>1. /\ mode = "run" /\ job.op = "test_store" /\ Len(code) = 1
        /\ Head(Steps).what = "source" /\ Moves /\ job' = job
    BY <1>4, AtShut, StepMoves DEF CloseRepo, StepAction
  <2>2. Live' /\ repos' = repos \ {"source"}
    BY <1>4, <2>1 DEF CloseRepo, GoOn, Live
  <2>3. Len(code') = 0 /\ outcome' = "none"
    BY <2>1, <2>2, RunStep DEF Alive
  <2>4. repos = {"source"} /\ ReposAt(job.op, 0) = {}
    BY <2>1 DEF Repositories, ReposAt, Live
  <2> QED BY <2>1, <2>2, <2>3, <2>4 DEF Repositories
<1>5. CASE \/ AcquireStep \/ CallStep \/ StoreCreate \/ Commit \/ ListSnapshots
           \/ LocateSnapshotIDs \/ Export \/ Check \/ Synchronize
  <2>1. Moves BY <1>5, StepMoves DEF StepAction
  <2>2. Head(Steps).kind \notin {"openrepo", "closerepo"}
    BY <1>5
    DEF AcquireStep, CallStep, StoreCreate, Commit, ListSnapshots,
        LocateSnapshotIDs, Export, Check, Synchronize, AtCall, At
  <2>3. repos' = repos
    BY <1>5
    DEF AcquireStep, CallStep, StoreCreate, Commit, ListSnapshots,
        LocateSnapshotIDs, Export, Check, Synchronize, frames
  <2> QED BY <2>1, <2>2, <2>3, MovesRepos
<1>6. CASE EndOfLoop
  <2>1. Moves /\ Head(Steps).kind = "each" /\ repos' = repos
    BY <1>6 DEF EndOfLoop, Moves, At, frames
  <2> QED BY <2>1, MovesRepos
<1>7. CASE Iterate \/ EndOfBody \/ CloseInner
  <2>1. Live /\ UNCHANGED <<job, code, repos, outcome>> /\ outcome = "none"
    BY <1>7
    DEF Iterate, At, EndOfBody, Iterating, CloseInner, frames, Live, Control
  <2>2. Live' \/ mode' = mode
    BY <1>7 DEF Iterate, EndOfBody, CloseInner, Live
  <2> QED BY <2>1, <2>2 DEF Repositories, Live
<1>8. CASE EndOfCode
  <2>1. /\ Live /\ Len(code) = 0 /\ job' = job /\ repos' = repos
        /\ mode' = "return" /\ outcome' = "ok"
    BY <1>8 DEF EndOfCode, Live, Return, frames
  <2>2. job.op \in Ops BY <2>1, PayloadType DEF Control, Live
  <2>3. repos = NeverClosed(job.op)
    BY <2>1, <2>2 DEF Repositories, ReposAt, NeverClosed
  <2> QED BY <2>1, <2>3 DEF Repositories, Live
<1>9. CASE CloseDeferred BY <1>9 DEF CloseDeferred, Repositories, Live
<1>10. CASE Finished BY <1>10 DEF Finished, vars, frames, Repositories, Live
<1> QED
  BY <1>1, <1>2, <1>3, <1>4, <1>5, <1>6, <1>7, <1>8, <1>9, <1>10 DEF Next

-----------------------------------------------------------------------------
(* The theorems *)

Achieved == Created /\ Committed /\ Opened /\ Checked /\ Restored /\ Synced

Inv == Control /\ Typed /\ Frames /\ Repositories /\ Achieved

\* The initial states satisfy the invariant.
LEMMA InitInv == Init => Inv
<1> SUFFICES ASSUME Init PROVE Inv OBVIOUS
<1>1. Control /\ Typed BY InitTyped
<1>2. mode = "idle" /\ outcome = "none" /\ open = {} /\ repos = {} BY DEF Init
<1>3. Frames /\ Repositories BY <1>2 DEF Frames, Repositories, Live
<1>4. ~Alive BY <1>2 DEF Alive, Live
<1>5. Achieved
  BY <1>4
  DEF Achieved, Created, Committed, Opened, Checked, Restored, Synced
<1> QED BY <1>1, <1>3, <1>5 DEF Inv

\* Every step preserves the invariant.
LEMMA NextInv == Inv /\ [Next]_vars => Inv'
<1> SUFFICES ASSUME Inv, [Next]_vars PROVE Inv' OBVIOUS
<1>1. CASE Next
  <2>1. Control /\ Typed /\ Frames /\ Repositories /\ Achieved BY DEF Inv
  <2>2. Control' BY <1>1, <2>1, NextControl
  <2>3. Typed' BY <1>1, <2>1, NextType, NextCurrent DEF Typed
  <2>4. Frames' /\ Repositories' BY <1>1, <2>1, NextFrames, NextRepos
  <2>5. Achieved'
    BY <1>1, <2>1, NextCreated, NextCommitted, NextOpened, NextChecked,
       NextRestored, NextSynced
    DEF Achieved
  <2> QED BY <2>2, <2>3, <2>4, <2>5 DEF Inv
<1>2. CASE UNCHANGED vars
  <2> USE <1>2 DEF vars, disk, frames, loop, Inv
  <2>1. Control' BY DEF Control, Live
  <2>2. Typed' BY DEF Typed, TypeOK, Current, Live
  <2>3. Frames' BY DEF Frames, Live
  <2>7. Repositories' BY DEF Repositories, Live
  <2>4. Created' /\ Committed' /\ Opened'
    BY DEF Achieved, Created, Committed, Opened, Opens, Alive, Live
  <2>5. Checked' /\ Restored'
    BY DEF Achieved, Checked, Restored, Alive, Live, InFlight
  <2>6. Synced' BY DEF Achieved, Synced, Alive, Live, InFlight
  <2> QED BY <2>1, <2>2, <2>3, <2>4, <2>5, <2>6, <2>7 DEF Achieved
<1> QED BY <1>1, <1>2

\* The invariant holds in every reachable state.
LEMMA Invariance == Spec => []Inv
  BY InitInv, NextInv, PTL DEF Spec

\* Every variable keeps its type; a snapshot is there wherever one is used.
THEOREM TypeCorrect == Spec => []TypeOK
<1>1. Inv => TypeOK BY DEF Inv, Typed
<1> QED BY <1>1, Invariance, PTL

(***************************************************************************)
(* Whatever fails, panics or is counted, a snapshot is closed while what   *)
(* it works on is open.                                                    *)
(***************************************************************************)
THEOREM ClosedInOrder == Spec => []ClosedBeforeWhatItNeeds
<1>1. Inv => ClosedBeforeWhatItNeeds
  <2> SUFFICES ASSUME Inv, mode # "idle", NEW r \in open
               PROVE  Needs(r) \subseteq open
    BY DEF ClosedBeforeWhatItNeeds
  <2>1. /\ open = Range(defers) \cup Range(inner)
        /\ Stacked(job.op, defers, {})
        /\ Stacked(job.op, inner, Range(defers))
    BY DEF Inv, Frames
  <2>2. Needs(r) = NeedsOf(job.op, r) BY DEF Needs, NeedsOf
  <2>3. CASE r \in Range(defers)
    <3>1. NeedsOf(job.op, r) \subseteq Range(defers)
      BY <2>1, <2>3, StackedNeeds
    <3> QED BY <2>1, <2>2, <3>1
  <2>4. CASE r \in Range(inner)
    <3>1. NeedsOf(job.op, r) \subseteq Range(defers) \cup Range(inner)
      BY <2>1, <2>4, StackedNeeds
    <3> QED BY <2>1, <2>2, <3>1
  <2> QED BY <2>1, <2>3, <2>4
<1> QED BY <1>1, Invariance, PTL

(***************************************************************************)
(* An iteration, and a process that answers, has closed every connector,   *)
(* snapshot and cache it opened; the repositories a process leaves open    *)
(* are those that no code of its operation closes, and a success leaves    *)
(* all of them.                                                            *)
(***************************************************************************)
THEOREM NothingIsLeaked == Spec => []NothingLeaks
<1>1. Inv => NothingLeaks
  BY StackedEmpty DEF Inv, Frames, Repositories, Live, NothingLeaks
<1> QED BY <1>1, Invariance, PTL

(***************************************************************************)
(* A success covers all that was asked, whatever the stores held and       *)
(* whichever earlier process was killed or failed.                         *)
(***************************************************************************)
THEOREM SuccessCoversAll == Spec => []SuccessIsTotal
<1>1. Inv => SuccessIsTotal
  <2> SUFFICES ASSUME Inv, Success PROVE SuccessIsTotal BY DEF SuccessIsTotal
  <2>1. /\ mode = "idle" /\ outcome = "ok" /\ Alive
        /\ job.op \in {"backup", "sync"} => errors = 0
    BY DEF Success, Alive
  <2>2. job \in Payloads /\ code = <<>> /\ InFlight = {}
    BY <2>1 DEF Inv, Control, Live, InFlight
  <2>3. Len(code) = 0 /\ Len(code) <= 1 /\ Len(code) <= 2 /\ Len(code) <= 3
        /\ Len(code) <= 5 /\ Len(code) <= 6
    BY <2>2
  <2>4. job.op = "create" =>
           /\ stores[job.source.loc] # "none"
           /\ (job.source.pass # "" /\ ~job.no_encryption)
                  => stores[job.source.loc] = job.source.pass
    <3> SUFFICES ASSUME job.op = "create"
                 PROVE  /\ stores[job.source.loc] # "none"
                        /\ (job.source.pass # "" /\ ~job.no_encryption)
                               => stores[job.source.loc] = job.source.pass
      OBVIOUS
    <3>1. stores[job.source.loc] = IF job.no_encryption \/ job.source.pass = ""
                                   THEN "plain" ELSE job.source.pass
      BY <2>1, <2>3 DEF Inv, Achieved, Created
    <3>2. job.source.pass \in Passphrases \cup {""}
      BY <2>2, PayloadType DEF Connectors
    <3>3. "none" \notin Passphrases BY OperationsAssumption
    <3> QED BY <3>1, <3>2, <3>3
  <2>5. job.op = "backup" => cur \in snaps[job.target.loc]
    BY <2>1, <2>3 DEF Inv, Achieved, Committed
  <2>6. job.op = "check" => done = located
    BY <2>1, <2>2, <2>3 DEF Inv, Achieved, Checked
  <2>7. job.op = "restore" => done = located /\ Cardinality(done) = 1
    BY <2>1, <2>3, FS_Singleton DEF Inv, Achieved, Restored
  <2>8. job.op = "sync" => located \subseteq snaps[job.target.loc]
    BY <2>1, <2>2, <2>3 DEF Inv, Achieved, Synced
  <2>9. ASSUME NEW side \in DOMAIN job \cap {"source", "target"},
               job.op # "create", job[side] # Elsewhere
        PROVE  job[side].pass \in {"", stores[job[side].loc]}
    <3>1. /\ job.op \in {"check", "restore", "test_store"} =>
                Opens(job["source"]) /\ job["target"] = Elsewhere
          /\ job.op = "backup" =>
                Opens(job["target"]) /\ job["source"] = Elsewhere
          /\ job.op = "sync" => Opens(job["source"]) /\ Opens(job["target"])
          /\ job.op \in {"test_source", "test_destination"} =>
                job["source"] = Elsewhere /\ "target" \notin DOMAIN job
      BY <2>1, <2>2, <2>3 DEF Inv, Achieved, Opened, Payloads
    <3> QED BY <2>2, <2>9, <3>1, PayloadType DEF Opens, Ops
  <2> QED BY <2>4, <2>5, <2>6, <2>7, <2>8, <2>9 DEF SuccessIsTotal
<1> QED BY <1>1, Invariance, PTL

\* No snapshot is transferred that the target already holds.
THEOREM NothingTransferredTwice == Spec => []NoRetransfer
<1>1. Inv => NoRetransfer
  <2> SUFFICES ASSUME Inv, AtCall("Synchronize")
               PROVE  cur \notin snaps[job.target.loc]
    BY DEF NoRetransfer
  <2>1. mode = "iterate" /\ job.op = "sync" /\ Steps # <<>>
    BY AtEffect DEF Inv, AtCall, At
  <2>2. InFlight = {cur} BY <2>1 DEF InFlight, Steps, Iterating
  <2> QED BY <2>1, <2>2 DEF Inv, Achieved, Synced, Alive, Live
<1> QED BY <1>1, Invariance, PTL
=============================================================================
