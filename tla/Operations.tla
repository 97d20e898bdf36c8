----------------------------- MODULE Operations -----------------------------
(***************************************************************************)
(* The operations on stores (create, backup, check, restore, sync, test),  *)
(* as a driver runs them: one plaklet process after another, against       *)
(* stores that outlive the processes, any of which may be killed halfway.  *)
(*                                                                         *)
(* An operation is straight-line code: it acquires connectors and          *)
(* snapshots whose close is deferred, makes calls that may fail, and       *)
(* returns through its deferred closes, last acquired first. check and     *)
(* sync have one loop, over the snapshots they located, whose body has     *)
(* closes of its own. So the code of an operation is a sequence of steps,  *)
(* and the actions below say what each kind of step does. Calls into       *)
(* kloset and the connectors are external: they fail or succeed freely.    *)
(***************************************************************************)
EXTENDS Naturals, Sequences, FiniteSets, SequencesExt

CONSTANTS
    Locations,    \* where stores may live
    Passphrases,  \* the passphrases a store connector may be configured with
    IDs,          \* snapshot ids
    MaxJobs       \* bound on the processes started

ASSUME OperationsAssumption ==
    /\ MaxJobs \in Nat
    /\ Passphrases \cap {"", "none", "plain"} = {}
    /\ IsFiniteSet(IDs)

VARIABLES
    stores,   \* per location: "none", "plain" or the passphrase it encrypts with
    created,  \* per location: the passphrase field it was created with
    snaps,    \* per location: the committed snapshots
    jobs,     \* how many processes were started
    job,      \* the payload of the running process
    mode,     \* "idle", "run", "iterate" in the loop's body, "next" while an
              \* iteration closes what it opened, "return" while the operation does
    code,     \* the steps left of the operation
    body,     \* the steps left of the iteration
    defers,   \* the deferred closes of the operation, innermost last
    inner,    \* the closes of the iteration
    open,     \* the connectors, snapshots and caches that are open
    repos,    \* the sides whose repository is open
    present,  \* sync: the snapshots the target had when it was listed
    located,  \* what LocateSnapshotIDs returned
    todo,     \* the located snapshots still to loop over
    cur,      \* the snapshot of the iteration, of a restore or of a backup
    done,     \* the snapshots checked, exported or copied without error
    errors,   \* the error count of the report
    outcome   \* "none", "ok", "error" or "panic", and "killed"

disk   == <<stores, created, snaps>>
frames == <<defers, inner, open, repos>>
loop   == <<present, located, todo, cur, done, errors>>
vars   == <<disk, jobs, job, mode, code, body, frames, loop, outcome>>

NoID == "none"

-----------------------------------------------------------------------------
(* The code of the operations *)

Acquire(r) == [kind |-> "acquire", what |-> r, onError |-> "return"]
Try(r)     == [kind |-> "acquire", what |-> r, onError |-> "go_on"]
Call(c)    == [kind |-> "call", what |-> c, onError |-> "return"]
Repo(side) == [kind |-> "openrepo", what |-> side, onError |-> "return"]
Shut(side) == [kind |-> "closerepo", what |-> side, onError |-> "go_on"]
Locate     == [kind |-> "locate", what |-> "source", onError |-> "return"]
Each       == [kind |-> "each", what |-> "located", onError |-> "return"]

\* A step whose error is counted, and ends the iteration.
Counted(step) == [step EXCEPT !.onError = "count"]

CreateCode == <<Acquire("source"), Call("compression"), Call("encryption"),
                Call("serialize"), Call("Create")>>

BackupCode == <<Acquire("importer"), Acquire("target"), Repo("target"),
                Acquire("snap"), Call("NewSource"), Call("Match"),
                Try("parent"), Call("Backup"), Call("Commit")>>

CheckCode == <<Acquire("source"), Repo("source"), Locate, Acquire("cache"),
               Each>>

RestoreCode == <<Acquire("exporter"), Acquire("source"), Repo("source"),
                 Locate, Acquire("snap"), Call("Export")>>

SyncCode == <<Acquire("source"), Repo("source"), Acquire("target"),
              Repo("target"), Call("ListSnapshots"), Locate, Each>>

TestStoreCode       == <<Acquire("source"), Repo("source"), Shut("source")>>
TestSourceCode      == <<Acquire("importer"), Call("Ping")>>
TestDestinationCode == <<Acquire("exporter"), Call("Ping")>>

Code(op) ==
    CASE op = "create"           -> CreateCode
      [] op = "backup"           -> BackupCode
      [] op = "check"            -> CheckCode
      [] op = "restore"          -> RestoreCode
      [] op = "sync"             -> SyncCode
      [] op = "test_store"       -> TestStoreCode
      [] op = "test_source"      -> TestSourceCode
      [] op = "test_destination" -> TestDestinationCode

CheckBody == <<Acquire("snap"), Counted(Call("Check"))>>

\* syncSnap
SyncBody == <<Counted(Acquire("srcSnap")), Counted(Acquire("dstSnap")),
              Counted(Call("Match")), Counted(Acquire("parent")),
              Counted(Call("FilesystemWithCache")), Counted(Call("Synchronize"))>>

Body(op) == IF op = "check" THEN CheckBody ELSE SyncBody

-----------------------------------------------------------------------------
(* Processes *)

(***************************************************************************)
(* The stores are left by earlier jobs: encrypted with the passphrase they *)
(* were created with, or plain, in which case the passphrase is anything.  *)
(***************************************************************************)
Init ==
    /\ stores \in [Locations -> Passphrases \cup {"none", "plain"}]
    /\ created \in [Locations -> Passphrases \cup {""}]
    /\ snaps \in [Locations -> SUBSET IDs]
    /\ \A l \in Locations :
          /\ stores[l] \in Passphrases => created[l] = stores[l]
          /\ stores[l] = "none" => created[l] = "" /\ snaps[l] = {}
    /\ jobs = 0
    /\ job = [op |-> "none"]
    /\ mode = "idle"
    /\ code = <<>> /\ body = <<>>
    /\ defers = <<>> /\ inner = <<>> /\ open = {} /\ repos = {}
    /\ present = {} /\ located = {} /\ todo = {} /\ cur = NoID /\ done = {}
    /\ errors = 0
    /\ outcome = "none"

Connectors == [loc : Locations, pass : Passphrases \cup {""}]
Elsewhere  == [loc |-> "elsewhere"]  \* what a backup reads, a restore writes

Payloads ==
    [op : {"create"}, source : Connectors, target : {Elsewhere},
     no_encryption : BOOLEAN]
    \cup [op : {"backup"}, source : {Elsewhere}, target : Connectors]
    \cup [op : {"check", "restore", "test_store"}, source : Connectors,
          target : {Elsewhere}]
    \cup [op : {"sync"}, source : Connectors, target : Connectors]
    \cup [op : {"test_source", "test_destination"}, source : {Elsewhere}]

(***************************************************************************)
(* A process decodes its payload. One without the connectors the operation *)
(* needs is refused before anything is opened.                             *)
(***************************************************************************)
Start ==
    /\ mode = "idle"
    /\ jobs < MaxJobs
    /\ jobs' = jobs + 1
    /\ job' \in Payloads
    /\ \/ /\ mode' = "run" /\ code' = Code(job'.op)
          /\ outcome' = "none"
       \/ /\ outcome' = "error"
          /\ UNCHANGED <<mode, code>>
    /\ body' = <<>>
    /\ defers' = <<>> /\ inner' = <<>> /\ open' = {} /\ repos' = {}
    /\ present' = {} /\ located' = {} /\ todo' = {} /\ cur' = NoID /\ done' = {}
    /\ errors' = 0
    /\ UNCHANGED disk

\* The process is killed, or its machine stops.
Kill ==
    /\ mode # "idle"
    /\ mode' = "idle" /\ outcome' = "killed"
    /\ code' = <<>> /\ body' = <<>>
    /\ UNCHANGED <<disk, jobs, job, frames, loop>>

-----------------------------------------------------------------------------
(* Steps, of the operation or of an iteration *)

Iterating == mode = "iterate"
Steps == IF Iterating THEN body ELSE code

At(kind) ==
    /\ mode \in {"run", "iterate"}
    /\ Steps # <<>>
    /\ Head(Steps).kind = kind

AtCall(c) == At("call") /\ Head(Steps).what = c

\* The step went well, or badly with an error that is not looked at.
GoOn ==
    /\ IF Iterating THEN body' = Tail(body) /\ UNCHANGED code
                    ELSE code' = Tail(code) /\ UNCHANGED body
    /\ UNCHANGED <<mode, outcome>>

Return(result) ==
    /\ mode' = "return" /\ outcome' = result
    /\ code' = <<>> /\ body' = <<>>

\* What an error of the step does.
Fail ==
    LET onError == Head(Steps).onError IN
    \/ onError = "return" /\ Return("error") /\ UNCHANGED errors
    \/ onError = "count"
          /\ mode' = "next" /\ body' = <<>> /\ errors' = errors + 1
          /\ UNCHANGED <<code, outcome>>
    \/ onError = "go_on" /\ GoOn /\ UNCHANGED errors

\* Closes that run in the order of the acquisitions.
DeferredFirst(closes, r) == <<r>> \o closes

\* defer: the close of r will run before those deferred earlier.
Deferred(closes, r) == Append(closes, r)

\* mkimporter, mkexporter, mkstorage, and opening, loading or creating snapshots.
AcquireStep ==
    /\ At("acquire")
    /\ \/ /\ Fail
          /\ UNCHANGED frames
       \/ /\ GoOn
          /\ LET r == Head(Steps).what IN
             /\ open' = open \cup {r}
             /\ IF Iterating
                THEN inner' = Deferred(inner, r) /\ UNCHANGED defers
                ELSE defers' = Deferred(defers, r) /\ UNCHANGED inner
          /\ UNCHANGED <<repos, errors>>
    /\ UNCHANGED <<disk, jobs, job, present, located, todo, cur, done>>

Effectful == {"Create", "Commit", "ListSnapshots", "Export", "Check",
              "Synchronize"}

\* There may be no parent snapshot to load, and that is no error.
CallStep ==
    /\ At("call") /\ Head(Steps).what \notin Effectful
    /\ \/ Fail
       \/ GoOn /\ UNCHANGED errors
       \/ /\ Iterating /\ Head(Steps).what = "Match"
          /\ body' = <<Last(body)>>
          /\ UNCHANGED <<code, mode, outcome, errors>>
    /\ UNCHANGED <<disk, jobs, job, frames, present, located, todo, cur, done>>

Side(s) == IF s = "source" THEN job.source ELSE job.target

(***************************************************************************)
(* openrepo: without a passphrase no key is derived. With one, the key is  *)
(* derived from the parameters in the store's Encryption, a nil pointer if *)
(* the store is not encrypted, and the canary tells a wrong passphrase.    *)
(***************************************************************************)
OpenRepo ==
    /\ At("openrepo")
    /\ LET conn == Side(Head(Steps).what) IN
       \/ Fail /\ UNCHANGED repos
       \/ /\ stores[conn.loc] # "none" /\ conn.pass \in {"", stores[conn.loc]}
          /\ repos' = repos \cup {Head(Steps).what}
          /\ GoOn /\ UNCHANGED errors
       \/ /\ stores[conn.loc] = "plain" /\ conn.pass # ""
          /\ Return("panic") /\ UNCHANGED <<repos, errors>>
    /\ UNCHANGED <<disk, jobs, job, defers, inner, open, present, located, todo,
                   cur, done>>

\* A test closes the repository it opened, and does not look at the error.
CloseRepo ==
    /\ At("closerepo")
    /\ repos' = repos \ {Head(Steps).what}
    /\ GoOn
    /\ UNCHANGED <<disk, jobs, job, defers, inner, open, loop>>

\* store.Create fails where a store already is.
StoreCreate ==
    /\ AtCall("Create")
    /\ \/ Fail /\ UNCHANGED disk
       \/ LET l == job.source.loc IN
          /\ stores[l] = "none"
          /\ stores' = [stores EXCEPT ![l] =
                          IF job.no_encryption \/ job.source.pass = ""
                          THEN "plain" ELSE job.source.pass]
          /\ created' = [created EXCEPT ![l] = job.source.pass]
          /\ GoOn /\ UNCHANGED <<snaps, errors>>
    /\ UNCHANGED <<jobs, job, frames, present, located, todo, cur, done>>

Used == UNION {snaps[l] : l \in Locations}

\* A commit that fails may have written its state; some files may be unread.
Commit ==
    /\ AtCall("Commit")
    /\ \/ Fail /\ UNCHANGED <<snaps, cur>>
       \/ \E id \in IDs \ Used :
             /\ cur' = id
             /\ snaps' = [snaps EXCEPT ![job.target.loc] = @ \cup {id}]
             /\ \/ Fail
                \/ GoOn /\ errors' \in {errors, errors + 1}
    /\ UNCHANGED <<stores, created, jobs, job, frames, present, located, todo,
                   done>>

ListSnapshots ==
    /\ AtCall("ListSnapshots")
    /\ \/ Fail /\ UNCHANGED present
       \/ present' = snaps[job.target.loc] /\ GoOn /\ UNCHANGED errors
    /\ UNCHANGED <<disk, jobs, job, frames, located, todo, cur, done>>

\* The filters select some of the snapshots; restore insists on exactly one.
LocateSnapshotIDs ==
    /\ At("locate")
    /\ \/ Fail /\ UNCHANGED <<located, todo, cur>>
       \/ \E found \in SUBSET snaps[job.source.loc] :
             /\ located' = found /\ todo' = found
             /\ \/ job.op # "restore" /\ GoOn /\ UNCHANGED <<errors, cur>>
                \/ /\ job.op = "restore" /\ Cardinality(found) # 1
                   /\ Fail /\ UNCHANGED cur
                \/ /\ job.op = "restore" /\ Cardinality(found) = 1
                   /\ cur' \in found
                   /\ GoOn /\ UNCHANGED errors
    /\ UNCHANGED <<disk, jobs, job, frames, present, done>>

Export ==
    /\ AtCall("Export")
    /\ \/ Fail /\ UNCHANGED done
       \/ done' = done \cup {cur} /\ GoOn /\ UNCHANGED errors
    /\ UNCHANGED <<disk, jobs, job, frames, present, located, todo, cur>>

-----------------------------------------------------------------------------
(* The loop over the located snapshots *)

\* A loop that does not look at what the target has.
SkipsNothing(id) == FALSE

\* sync skips what the target was listed to have.
Skips(id) == job.op = "sync" /\ id \in present

Iterate ==
    /\ At("each")
    /\ \E id \in todo :
          /\ cur' = id
          /\ todo' = todo \ {id}
          /\ IF Skips(id)
             THEN UNCHANGED <<mode, body>>
             ELSE mode' = "iterate" /\ body' = Body(job.op)
    /\ UNCHANGED <<disk, jobs, job, code, frames, present, located, done,
                   errors, outcome>>

Check ==
    /\ AtCall("Check")
    /\ \/ Fail /\ UNCHANGED done
       \/ done' = done \cup {cur} /\ GoOn /\ UNCHANGED errors
    /\ UNCHANGED <<disk, jobs, job, frames, present, located, todo, cur>>

\* A synchronization that fails may have committed the snapshot.
Synchronize ==
    /\ AtCall("Synchronize")
    /\ \/ Fail /\ UNCHANGED <<snaps, done>>
       \/ /\ snaps' = [snaps EXCEPT ![job.target.loc] = @ \cup {cur}]
          /\ \/ Fail /\ UNCHANGED done
             \/ GoOn /\ done' = done \cup {cur} /\ UNCHANGED errors
    /\ UNCHANGED <<stores, created, jobs, job, frames, present, located, todo,
                   cur>>

\* The body is over.
EndOfBody ==
    /\ Iterating /\ body = <<>>
    /\ mode' = "next"
    /\ UNCHANGED <<disk, jobs, job, code, body, frames, loop, outcome>>

\* Going on to the next iteration whatever this one left open.
ClosesSkipped == TRUE

\* The deferred closes of the iteration have all run.
IterationClosed == inner = <<>>

\* The iteration closes what it opened, and the loop goes on.
CloseInner ==
    /\ mode = "next"
    /\ \/ /\ inner # <<>>
          /\ open' = open \ {Last(inner)}
          /\ inner' = Front(inner)
          /\ UNCHANGED mode
       \/ /\ IterationClosed
          /\ mode' = "run"
          /\ UNCHANGED <<inner, open>>
    /\ UNCHANGED <<disk, jobs, job, code, body, defers, repos, loop, outcome>>

\* The errors of a check left to its report.
LoopNeverFails == FALSE

\* A check with errors returns one; a sync leaves them to its report.
LoopFails == job.op = "check" /\ errors > 0

EndOfLoop ==
    /\ At("each") /\ todo = {}
    /\ IF LoopFails THEN Return("error") ELSE GoOn
    /\ UNCHANGED <<disk, jobs, job, frames, loop>>

-----------------------------------------------------------------------------
(* The return *)

EndOfCode ==
    /\ mode = "run" /\ code = <<>>
    /\ Return("ok")
    /\ UNCHANGED <<disk, jobs, job, frames, loop>>

(***************************************************************************)
(* The deferred closes run, last acquired first, on every return and on a  *)
(* panic. ensureClose gives each a context of its own, so that they run    *)
(* after a cancellation too; one that fails is only a warning.             *)
(***************************************************************************)
CloseDeferred ==
    /\ mode = "return"
    /\ \/ /\ defers # <<>>
          /\ open' = open \ {Last(defers)}
          /\ defers' = Front(defers)
          /\ UNCHANGED mode
       \/ /\ defers = <<>>
          /\ mode' = "idle"
          /\ UNCHANGED <<defers, open>>
    /\ UNCHANGED <<disk, jobs, job, code, body, inner, repos, loop, outcome>>

Finished == mode = "idle" /\ jobs = MaxJobs /\ UNCHANGED vars

Next ==
    \/ Start \/ Kill
    \/ AcquireStep \/ CallStep \/ OpenRepo \/ CloseRepo \/ StoreCreate \/ Commit
    \/ ListSnapshots \/ LocateSnapshotIDs \/ Export
    \/ Iterate \/ Check \/ Synchronize \/ EndOfBody \/ CloseInner \/ EndOfLoop
    \/ EndOfCode \/ CloseDeferred \/ Finished

Spec == Init /\ [][Next]_vars

-----------------------------------------------------------------------------
(* Properties *)

Resources == {"importer", "exporter", "source", "target", "cache", "snap",
              "parent", "srcSnap", "dstSnap"}

Calls == {"compression", "encryption", "serialize", "Create", "NewSource",
          "Match", "Backup", "Commit", "Export", "ListSnapshots", "Ping",
          "Check", "FilesystemWithCache", "Synchronize"}

\* The steps that codes are made of.
StepType ==
    [kind : {"acquire"}, what : Resources, onError : {"return", "count", "go_on"}]
    \cup [kind : {"call"}, what : Calls, onError : {"return", "count"}]
    \cup [kind : {"openrepo", "locate", "each"},
          what : {"source", "target", "located"}, onError : {"return"}]
    \cup [kind : {"closerepo"}, what : {"source"}, onError : {"go_on"}]

\* Every variable keeps its type.
TypeOK ==
    /\ stores \in [Locations -> Passphrases \cup {"none", "plain"}]
    /\ created \in [Locations -> Passphrases \cup {""}]
    /\ snaps \in [Locations -> SUBSET IDs]
    /\ jobs \in 0..MaxJobs
    /\ job \in Payloads \cup {[op |-> "none"]}
    /\ mode \in {"idle", "run", "iterate", "next", "return"}
    /\ code \in Seq(StepType) /\ body \in Seq(StepType)
    /\ defers \in Seq(Resources) /\ inner \in Seq(Resources)
    /\ open \in SUBSET Resources /\ repos \in SUBSET {"source", "target"}
    /\ present \in SUBSET IDs /\ located \in SUBSET IDs
    /\ todo \in SUBSET IDs /\ done \in SUBSET IDs
    /\ cur \in IDs \cup {NoID}
    /\ errors \in Nat
    /\ outcome \in {"none", "ok", "error", "panic", "killed"}

\* What has to be open for r to be used or closed.
Needs(r) ==
    CASE r = "snap" /\ job.op = "backup"  -> {"importer", "target"}
      [] r = "snap" /\ job.op = "check"   -> {"source", "cache"}
      [] r = "snap" /\ job.op = "restore" -> {"exporter", "source"}
      [] r = "srcSnap"                    -> {"source"}
      [] r \in {"dstSnap", "parent"}      -> {"target"}
      [] OTHER                            -> {}

(***************************************************************************)
(* On every way out (an error of any step, a counted error of one          *)
(* iteration, a panic) a snapshot is closed while the store, the connector *)
(* and the cache it works on are still open.                               *)
(***************************************************************************)
ClosedBeforeWhatItNeeds ==
    mode # "idle" => \A r \in open : Needs(r) \subseteq open

\* The repositories an operation opens and has no code to close.
NeverClosed(op) ==
    CASE op = "backup"              -> {"target"}
      [] op \in {"check", "restore"} -> {"source"}
      [] op = "sync"                -> {"source", "target"}
      [] OTHER                      -> {}

(***************************************************************************)
(* No connector, snapshot or cache an iteration opened is still open when  *)
(* the next one starts, whatever failed in it, and a process that answers  *)
(* has closed all of them: a check or a sync over many snapshots holds on  *)
(* to none. Repositories are another matter: test closes the one it opens  *)
(* (test.go:38) on every way out, while backup, check, restore and sync    *)
(* have no close for theirs and leave it to the exit of the process, once  *)
(* the store under it is closed.                                           *)
(***************************************************************************)
NothingLeaks ==
    /\ mode = "run" => open = Range(defers)
    /\ (mode = "idle" /\ outcome # "killed") =>
          /\ open = {}
          /\ repos \subseteq NeverClosed(job.op)
          /\ outcome = "ok" => repos = NeverClosed(job.op)

\* Main's verdict on an operation that returned no error (terminalError).
Success ==
    /\ mode = "idle" /\ outcome = "ok"
    /\ job.op \in {"backup", "sync"} => errors = 0

(***************************************************************************)
(* A success covers all that was asked: the store exists and is encrypted  *)
(* unless that was turned off, the snapshot is committed, every located    *)
(* snapshot was checked and sound, exactly one was exported, and all the   *)
(* target lacked were copied, whichever earlier job was killed or failed;  *)
(* and no store was used under a passphrase other than its own. Without a  *)
(* passphrase openrepo derives no key (kloset.go:124), and what can be     *)
(* read of an encrypted store is then up to kloset.                        *)
(***************************************************************************)
SuccessIsTotal ==
    Success =>
        /\ job.op = "create" =>
              /\ stores[job.source.loc] # "none"
              /\ (job.source.pass # "" /\ ~job.no_encryption)
                     => stores[job.source.loc] = job.source.pass
        /\ job.op = "backup" => cur \in snaps[job.target.loc]
        /\ job.op = "check" => done = located
        /\ job.op = "restore" => done = located /\ Cardinality(done) = 1
        /\ job.op = "sync" => located \subseteq snaps[job.target.loc]
        /\ \A side \in DOMAIN job \cap {"source", "target"} :
              (job.op # "create" /\ job[side] # Elsewhere)
                  => job[side].pass \in {"", stores[job[side].loc]}

(***************************************************************************)
(* "skipping any the target already has" (sync.go:16): no snapshot is      *)
(* transferred that the target holds, even when an earlier sync was killed *)
(* or failed after it had committed that snapshot.                         *)
(***************************************************************************)
NoRetransfer ==
    AtCall("Synchronize") => cur \notin snaps[job.target.loc]

(***************************************************************************)
(* create lets "an edge ... initialize the store it will back up into"     *)
(* (create.go:23): an operation on a store, with the connector fields the  *)
(* store was created with, does not crash.                                 *)
(***************************************************************************)
CreatedStoreOpens ==
    outcome = "panic" =>
        \E side \in DOMAIN job \cap {"source", "target"} :
           /\ job[side] # Elsewhere
           /\ job[side].pass # created[job[side].loc]
=============================================================================
