# A verification development for the pBFT simulation

The program (`pBFT/pBFTCode/*.go`) runs four pBFT replicas in one Go process,
connected by libp2p streams. A main goroutine injects one request at every
replica; the replicas agree on it in three phases, write it to a chain file
each, and change the view when a timer says that the primary makes no progress.

This directory holds a TLA+ model of that protocol, translated from the code,
the TLC runs that check it on a cluster of four, and theorems that TLAPS
proves for every cluster size.

    tlc -workers 2 -config silent_backup.cfg MCPBFT     # any of the runs below
    tlapm PBFTProofs.tla                                # the proofs: this one,
    tlapm NormalProofs.tla                              # the normal case,
    tlapm ViewsProofs.tla                               # view changes,
    tlapm AgreementProofs.tla                           # agreement in a slot,
    tlapm CarryProofs.tla                               # what a view change keeps,
    tlapm LedgerProofs.tla                              # the ledgers after one,
                                                        # certificates after any,
    tlapm ProgressProofs.tla                            # timers, quorums acted on,
                                                        # a view change that ends,
    tlapm ChainFileProofs.tla                           # the chain file

## 1. The system

| Part | State | Operations | Talks to |
|---|---|---|---|
| Quorum arithmetic (`core.go`) | `n`, `f` | primary of a view, quorums, slots | everything |
| Messages (`message.go`, `serialization.go`, `digest.go`) | - | encode, decode, digest | dispatcher, broadcast |
| Replica state (`state.go`, `receipts.go`, `replica.go`) | view, activeView, sequence, requests, pending, pre-prepares, receipts, timer | - | all handlers, under the lock `sl` |
| Normal case (`request.go`, `preprepare.go`, `prepare.go`, `commit.go`, `conditions.go`) | the receipts of a slot (view, sequence number) | propose, prepare, commit | broadcast, timer, execution |
| View change (`view_change.go`, `new_view.go`, `outstanding.go`, `cleanupState`) | view-change receipts of a view | leave a view, join others, build and take a NewView | broadcast, normal case, timer |
| Request timer (`timer.go`) | `requestTimer` | start, stop, callback | view change |
| Dispatcher (`replica.go`) | - | decode, refuse, lock, call the handler | all handlers |
| Broadcast (`messaging.go`) | - | one stream to each peer, an error if one fails | network |
| Orchestrator (`pBFT_main.go`) | loop variable | create the replicas, inject the request | `processRequest`, without the lock |
| Execution and ledger (`execute.go`, `block.go`) | chain file, `lastExecuted` | append a block | timer |
| Host wiring, configuration, tracing | - | start-up, durations, telemetry | - |

What makes it hard:

- **Interleavings.** Each message is a stream of its own with its own goroutine,
  so messages overtake each other; handlers and timer callbacks exclude each
  other by the replica's lock, but main calls `processRequest` without it.
- **Stale events.** A timer may have fired when it is stopped, its callback
  waiting for the lock; main may overwrite the pointer to a running timer.
- **Partial failure.** A broadcast that fails for one peer has reached the
  others, and each handler reacts to the error in its own way.
- **View changes** at any point of the normal case, joined at different times,
  with certificates from different views and a choice left to the order of Go
  maps.
- **Byzantine replicas** as the program has them: they ignore all messages,
  count their view up before they propose, and their timers run as usual.

`PROJECT.json` lists the hazards line by line with the properties that watch
them. What should hold of the parts:

| Part | Property |
|---|---|
| Normal case | agreement in a slot and between ledgers; what is executed is certified; every quorum is acted on whatever message completes it |
| View change | a view needs 2f+1 replicas that left the one before; nothing is received for a view before it is entered; executed requests are carried over; it ends |
| Timer | no accepted request waits without a timer; a late callback does no harm |
| Execution | once for each request; the chain files are copies of one log |
| Chain file | what can be read is a chain, and holds the blocks that were reported as added |

## 2. The modules

    PBFTCore <- PBFTMessages <- PBFTReplica <- PBFT <- PBFTProperties <- PBFTProofs
                                                        |      |    \
                               MCSchedules -> MCPBFT ---+    Views  Consensus

    PBFTProofs <- ViewsProofs <- AgreementProofs
    PBFTProofs <- NormalProofs

    AgreementProofs, NormalProofs <- CarryProofs <- LedgerProofs
    CarryProofs, MCPBFT <- ProgressProofs

    ChainFile <- ChainFileProofs

(`A <- B`: B extends A. PBFTProperties instantiates Views and Consensus.)

- **PBFTCore** - `core.go`. Replicas are the numbers `0 .. N-1`, their indices in
  `peers`. Assumes `N >= 4`, which `NewReplica` checks.
- **PBFTMessages** - the messages as records. A request *is* its digest; the one
  that main injects at replica `i` is `i`, since main sets `Origin` before each
  call and the four requests hash differently. A map from senders to messages is
  a set of pairs. `Decodes` is what remains of the JSON layer. A null request
  has an empty `Origin`, and whether libp2p decodes that is the constant
  `NullDecodes`.
- **PBFTReplica** - one replica as a record with the fields of the Go struct, and
  every method as an operator from the record before to the record after it. A
  handler is the composition of the methods it calls, in their order, with the
  early returns of the code. Where the order of a Go map decides, the operator
  gives the set of results. The field `outbox` collects what the method
  broadcasts. The argument `lost` is the set of what fails in the method, by type
  of message (or ledger write): a peer that is gone fails all its broadcasts, and
  every combination of error paths is an outcome of its own.
- **PBFT** - the cluster: `replica`, `net` (a set of envelopes: any order, at
  most once), `main` (where the injection loop is and what it has read), and
  `failures`. A broadcast that fails misses any of its peers, all or none of them
  included (`Run`): what these were to be sent is never under way. Actions, one for each thing that runs under a lock:

  | Action | Code |
  |---|---|
  | `ReceivePrePrepare` ... `ReceiveNewView` | `processMessage` and the handler |
  | `TimerExpires`, `TimerCallback` | `time.AfterFunc`; the callback with the lock |
  | `MainAtBackup` | `processRequest` where `IsPrimary` is false (`request.go:44`) |
  | `MainReadsTimer` | the nil check of `startRequestTimer` (`timer.go:11`) |
  | `MainReadsView` | the old timer is stopped, the view is read (`timer.go:16-22`) |
  | `MainArmsTimer` | the assignment of the new timer (`timer.go:24`) |
  | `MainNotesRequest` | `request.go:49` |
  | `MainProposes`, `MainStoresPrePrepare` | `processRequest` at a primary: up to the broadcast, and what follows it |

  A broadcast returns after all peers have been sent the message, before they
  have handled it. A handler's own lock hides the time in between, so a handler
  is one step. main's call is five steps at a backup and two at a primary,
  because there handlers of the same replica do run in between.
- **PBFTProperties** - what the cluster should guarantee.
- **Views** - what view changes promise, without messages, timers and
  certificates: a replica leaves its view for a later one, and enters a view
  only with a quorum of replicas of which none is in an earlier view.
- **Consensus** - what the cluster promises to a reader of the chain files: the
  correct replicas write the blocks of one log, each at its own pace, and the log
  holds only what main has injected (or null requests).
- **ChainFile** - the chain file of one replica on a file system whose calls
  fail, see below.
- **MCPBFT**, **MCSchedules** - instances, views of the state and schedules for
  TLC.
- **PBFTProofs**, **ViewsProofs**, **AgreementProofs**, **NormalProofs**,
  **CarryProofs**, **LedgerProofs**, **ProgressProofs**, **ChainFileProofs** - the
  theorems, section 4. ProgressProofs extends MCPBFT for `LockedSpec`.

Definitions commented "Mutant of ..." in PBFTReplica and ChainFile are not used
by the specifications. Each is a plausible bug in the operator that follows it; with
the operator replaced by it, the run named in `PROJECT.json` reports the
property violated, which shows that the property can fail at these bounds.

### The abstract specifications

`RefinesViews` and `RefinesConsensus` state that every step of the cluster is a
step of Views or Consensus, or leaves their variables alone. The mappings are
in PBFTProperties:

- Views: `view` and `active` are the fields `view` and `activeView` of the
  replicas, `Quorum` is the set of all sets of at least 2f+1 replicas. `Enter`
  speaks of the views of *other* replicas at the moment of the step, which the
  code knows only from ViewChanges it read earlier: the refinement says that
  what it knows is still true.
- Consensus: `ledger` is the digests in the ledgers of the correct replicas,
  `requested` what main has passed on. Null requests are not injected by anyone.

### The chain file

`newBlockWithPrevBlockchain` writes a genesis line, `exeAddBlock` reads and parses
the whole file and appends one line; their callers log an error and go on. The
model has one file, as lines, and lets every call fail. A write that fails may
have written a part of its line, and what the next reader makes of that depends
on where it stopped, because `bufio.Scanner` takes a last line without a newline
and `strings.Split` counts commas. A line is therefore *whole*, *cut* (its three
fields are there, but not the end of the hash, or not the newline) or *junk*
(not three fields); what is written after a cut line makes one line of five
fields with it. The module's `torn` and `added` are history: no code has them.

In the cluster a failed write is one outcome (`<<"Block", 0>>` in `Execute`) and
`ledger` is what ChainFile calls `added`, the blocks that `exeAddBlock` has
reported as added. ChainFile relates these to what can be read from the file.
The file is named after the peer ID, and main gives `host.New` no key
(`pBFT_main.go:45`), so every process has new IDs and never finds a file that an
earlier one has left. A panic in
`exeAddBlock` ends the process, and with it all four replicas: nothing restarts.

### What is abstracted

- A request's contents, signatures (commented out in the code) and tracing.
- `executions`: no code writes it, so every lookup misses, and `send` is never
  called. `Request` messages are never sent. `Shutdown` is never reached.
- The pre-prepare inside a prepare certificate: `getPrepareSet` takes it from the
  same slot, so its view, number and digest repeat those of the certificate.
- Time. A timer may expire whenever it runs.
- The Go runtime may abort when main and a handler use a map at the same
  moment. The model interleaves these accesses instead.
- `MainProposes` takes `request.go:43-67` and `preprepare.go:16-54` in one step: the
  tests of `IsPrimary`, the notes in `requests` and `pending`, the counting of
  `sequence`, the read of the view and the search for a conflict. main does this
  without the lock too, so a handler could come in between. It would make a
  difference only if main is at a replica that leads, or is about to lead, a view after
  the first: no run has that, but the theorems do not say what happens then.
- main may find the timer gone at `timer.go:17` that it has seen at `timer.go:16`. It
  then follows a nil pointer, which ends the process; that is left out.
- A message to a Byzantine replica, which refuses all messages, is not kept.

## 3. The runs

All runs have `N = 4` (main's `replica_num`), so `f = 1`, quorums 2 and 3.
Bounds: `MaxView` (no timer for a later view expires) and `MaxFailures` (in how many
methods something fails; of `Failures`, any set may fail in one of them).
`MaxView = 1` allows one view change, with the normal case before and after it.

| Run | Instance | Shows |
|---|---|---|
| `normal_case` | no Byzantine replica, view 0, one method in which broadcasts and ledger writes may fail | `ExecutedIsCertified`, `TimerCoverage`, `BackupsActOnQuorums`: whatever is half done is certified and has a timer |
| `faulty_primary` | replica 0 Byzantine, one view change, no schedule, one ViewChange broadcast that may fail and miss any peers | `CommitAgreement`, `PrePreparesAgree`, `ViewsAdvance`, `ViewChangeEnds` and the others of the cfg; under fairness `EveryoneChangesView` |
| `silent_backup` | replica 3 Byzantine, a view change at any point of the normal case | `LedgerAgreement`, `ExecutedSurvives`, `ViewHasQuorum`, `ViewChangesAreValid` and the others of the cfg; the refinements `RefinesViews` and `RefinesConsensus` |
| `new_primary` | no Byzantine replica; one replica is prepared when the view changes | `CommitAgreement` although NewView and new primary use the same number for different requests |
| `normal_liveness` | replica 3 Byzantine, main takes the lock | `EveryoneExecutes`, `PrimaryActsOnQuorums` |
| `chain_file` | two digests, four executions, any number of failures | the five invariants of ChainFile |

Six more runs are expected to end in a violation. Each is a disagreement
between the code and what its comments or its README say:

| Run | Property | What happens |
|---|---|---|
| `double_execution` | `ExecutesOnce` | the NewView carries the request executed in view 0 as a prepared certificate (`new_view.go:134-153`); the backup that takes it puts the request in `pending` again (`preprepare.go:114`), and it is executed a second time, because `lastExecuted` has not advanced (`execute.go:53`) |
| `main_race` | `PrimaryActsOnQuorums` | Prepares handled between the broadcast and the recording of a pre-prepare leave the primary with a quorum it never acts on |
| `stuck_view_change` | `ViewChangeEnds` | a replica in a view change has no timer; a silent next primary leaves it there |
| `newview_error` | `LedgerAgreement` | a NewView whose broadcast failed for one peer is followed by a different one for the same view; votes are counted whatever their digest; two correct replicas write different blocks |
| `new_primary_overwrites` | `NewViewExecutes` | the new primary overwrites the pre-prepare of its own NewView and never commits it |
| `lost_certificate` | `LedgerAgreement` | `cleanupState` drops the certificate of a request executed in view 0; if it is not prepared again in view 1, the view change to view 2 forgets it, and two correct replicas write different blocks. No failure, no Byzantine replica, `MaxView = 2` |

`PROJECT.json` quotes the lines concerned. The passing runs are the
situations in which the properties do hold, so that a reader can see the border: for
instance `LedgerAgreement` holds over *one* view change without send errors, and
`ViewChangeEnds` holds when the next primary is correct and has the view changes
of all correct replicas. Three properties name their border themselves. A ViewChange
that does not reach the next primary is not sent again, and one
whose broadcast failed is not recorded at its sender either (`view_change.go:40`), which
may be that primary. With replica 0 silent it needs all three that are left, so
the view change then stays as it is for ever. `faulty_primary` reaches this, and
`ViewChangeEnds` excepts exactly this (`MissesViewChange`). `EveryoneChangesView`
promises nothing once a broadcast has failed, and `ExecutedIsCertified` nothing of
what was reported, since a ViewChange that failed is not recorded.

Two more behaviours that the code does not mean to have, without a run of their own:

- *The late timer.* main reads the view for its timer at `timer.go:22` and sets the timer at
  `timer.go:24`. If a handler has taken the replica to another view in between,
  the timer is for the view that the replica enters, the NewView does not replace
  it (`new_view.go:300`), and a pending request is left with a timer that leads
  nowhere. With `TimerCoverage` as an invariant of `faulty_primary`, TLC finds
  this in a behaviour of 30 states: replica 0 Byzantine, one view change. `silent_backup`
  checks `TimerCoverage` with `MainBeforeTimers`, where main is never late.
- *Certificates beyond the second view.* A certificate should consist of Prepares that
  match its pre-prepare ("2f matching", `view_change.go:134-135`). The primary of view 1
  overwrites the pre-prepare of its NewView, the Prepares for it stay, and what the primary
  then reports is refused by everyone: TLC finds `ViewChangesAreValid` violated with
  `MaxView = 2`, without a failure or a Byzantine replica. In `silent_backup` the property is
  about certificates of view 0, where one request is proposed; it shows that
  these are complete.

The bounds. Four replicas are what the program starts. One request at each
replica is what main injects. One method that fails is enough for a handler to be cut short
and for some of the others to have its message; failures in two different methods are
left out. In `normal_case` a failed broadcast reaches all its peers or none
(`LostIsLate`): to a safety property a message that is lost is one that is never
delivered, so this leaves nothing out. In `faulty_primary`, which asks what holds when
nothing is under way any more, it may miss any of them. In `chain_file` four executions suffice for every sequence of
whole, cut and junk lines that matters: a block, a cut line, what is glued to it,
and one attempt after that. The theorems have no such bounds.

### Views of the state

Safety runs identify states by a `VIEW` that drops what no handler reads again.

- `LiveView` drops *spent* messages (for an earlier view, or for a view change
  that is over at the receiver: their handlers return before they change
  anything a handler reads) and view-change receipts that are not
  read any more. A receipt is read by its sender only, except by the primary of
  its view. Two states with the same view therefore have the same successors up to
  that view, and every property of these runs has the same value in both.
  Of the ViewChanges that a replica has sent itself, the requests reported are kept, for `ExecutedIsCertified`.
  `faulty_primary` uses this view for its liveness property as well. There, no step delivers
  a spent message (`EffectiveSpec`), so states with the same view have the same
  steps, and every step changes the view. `CommitAgreement` also reads messages
  under way; in that run no Commit is ever spent, because nobody prepares in view 0.
- `QuorumView` also drops, in the last view of the run, the Prepares of a slot
  that is prepared and has our Commit, and the Commits of a slot that is
  executed. It keeps *that* they are there. No replica leaves the last view, so
  no certificate is built from them. The properties of its runs have the same
  value in two states that it identifies: they count those receipts, and beyond
  that `CommitAgreement` needs only what each replica's own Commits say, which is
  what the pre-prepares of the slot say.

### Schedules

An `ACTION_CONSTRAINT` leaves interleavings out, so a passing run with one shows
less, which is why they differ from run to run.

- `MainFirst`: main serves all replicas before anything is handled, as it does
  in practice (four local calls). `faulty_primary`, `main_race` and
  `normal_liveness` have no schedule at all; in `silent_backup` main races all
  handlers of view 0.
- `MainBeforeTimers`: main is done before a timer expires (10 s), and before a
  correct replica leaves its first view.
- `ByzantineFirst`: a Byzantine replica's timers come first. Nothing else happens
  there, and its messages may be delivered as late as one likes.
- `FirstSlot`: Prepares and Commits of sequence numbers above 1 stay under way.
  No replica executes these numbers, since `lastExecuted` stays 0.
- Those of MCSchedules lead TLC to one deep behaviour. In `double_execution`,
  `newview_error`, `new_primary_overwrites` and `lost_certificate` this cannot
  make a false counterexample; in `new_primary` it means that only this behaviour's
  interleavings are checked.

Deadlock is not checked: the program handles one request and then waits.

### Fairness

`Fairness` is weak for each of: delivery to a replica, main, each timer's expiry
and each callback. libp2p streams deliver what was sent without an error, Go
schedules every goroutine, `time.AfterFunc` fires unless it is stopped,
`sync.Mutex` does not starve a waiter. None of it is needed to be strong: a
message under way stays so until it is handled.

- `LockedSpec` (`normal_liveness`) is the cluster in which main takes the lock.
  Without that the property is false, which `main_race` shows. `MaxView = 0`
  means that no timer expires: the property is the README's normal case.
- `EffectiveSpec` (`faulty_primary`) delivers no *spent* message, since its handler
  changes nothing that is read again, and asks only that the cluster goes on as
  long as some other step is possible. This is weaker than `Fairness`: with
  `MaxView` and the failures bounded, only finitely many other steps are possible
  in a behaviour, and each of them stays possible under `Fairness` until it is
  taken or is without effect. The safety properties of this run are checked under
  it as well.

Liveness is claimed without failures and with at most one silent replica. With a
silent primary of the next view the cluster does stop, which `stuck_view_change`
shows.

## 4. The proofs

The theorems hold for every `N >= 4`, every set of Byzantine replicas, every
`MaxView` and every choice of failures: the ASSUMEs of the modules
(`ClusterAssumption`, `DigestAssumption`, `ByzantineAssumption`,
`BoundAssumption`) are all they rest on, with these exceptions. Those of
ChainFile hold for every set of digests and every number of executions.

- `ArmsInTime` (the two theorems about `TimerCoverage` beyond view 0): main sets
  no timer for a view that its replica has reached since main read the view (`timer.go:22` and
  `24`). Nothing in the code sees to it; section 3 says how it fails.
- `EntersItsView` (`TimersLeadOn`): a correct replica becomes active in the view it is
  in already. A replica that waits for one view may be taken into a later one.
- `NewViewsArrive` (the theorems of AgreementProofs and LedgerProofs, the two
  about `ViewChangeEnds`, and `BackupsAct`): one kind of failure, that the broadcast of a NewView returns an error, is not among
  `Failures`. `newview_error` shows what happens otherwise.
- `QuorumsMeet` (`ExecutedIsCarriedOver`, `OneChangeAgrees` and `ImplementsConsensus`): two quorums of
  2f+1 are more than `N`. With `f = (n-1)/3` rounded down (`core.go`) this fails
  for `N = 6` and for no other size that `NewReplica` takes, which is lemma `OnlySix`:
  six replicas tolerate `f = 1`, and hold two quorums of three with no replica in
  common. The program starts four.
- `SilentThenCorrect`, with a quorum of correct replicas
  (`AwaitedViewChangeEnds`): replica 0 is Byzantine and replica 1 is not, which is
  the situation that a view change is for. With a silent *next* primary it does not end
  (`stuck_view_change`). `SmallestCluster` is that situation in the four
  replicas that the program starts.
- `StoresApart` (`ApartIsCertified`) restricts steps of main: when it stores, after
  its broadcast, what it has proposed at a primary, that overwrites no other
  request in the slot. It may, when a NewView has filled the slot in between
  (`new_primary_overwrites`), and then the certificate of what has been executed
  there is gone. `EarlyIsCertified` replaces it by a condition on time: main has given
  all its requests before a correct replica leaves view 0. A timer runs for ten
  seconds (`params.go:22`) and main waits for nothing but its broadcasts, so this is
  a start in which no broadcast blocks for long.
- `OneSlotEach` (`BackupsAct`): the request that a correct replica is to execute next
  holds no second slot of its view there. A primary looks for one before it
  proposes (`conflictingPrePrepare`), but main stores its pre-prepare only after its
  broadcast. If it proposes at a replica that is in the view change to the view
  it leads, and the NewView is sent before the pre-prepare is stored,
  then the same request is outstanding and is proposed again with the next number
  (`new_view.go:94`). A backup that has executed the first puts it in `pending` again
  when the second comes (`preprepare.go:114`), where it stays, unless a late Commit
  for the first slot has it executed once more. TLC finds
  this in 31 steps when it is led there as in MCSchedules (nobody prepares in view 0, main
  is at replica 1 while that waits for the ViewChanges of 2 and 3), so the
  hypothesis cannot be dropped.
- A theorem of the form `Spec => [](Hypothesis => Property)` says of its hypothesis
  in the table ("while every correct replica is in view 0", `AtMostOneChange`).
  Views only grow, so the hypothesis is about a prefix of the behaviour, and what
  happens in that prefix is not restricted.

| Theorem | Property | Meaning |
|---|---|---|
| **PBFTProofs** | | |
| `TypeCorrect` | `TypeOK` | the types of the state; nothing is left in an outbox |
| `ViewsEnteredClean` | `EntersViewClean` | until a replica is active in a view it holds no Prepare or Commit for it or for a later view, and no pre-prepare unless it leads that view |
| `ViewsOnlyAdvance` | `ViewsAdvance` | no step lowers a view, or makes a replica inactive in the view it is in |
| **ViewsProofs** | | |
| `ActiveViewsHaveQuorum` | `ViewHasQuorum` | a correct replica is active in a later view only when 2f+1 replicas have come as far |
| `ImplementsViews` | `RefinesViews` | the cluster implements Views |
| **AgreementProofs** | | |
| `CommitsAgree` | `CommitAgreement` | over any number of view changes, all Commits for one slot, under way or received, are for one request |
| `BackupsAgree` | `PrePreparesAgree` | ... no two backups have accepted different requests in one slot |
| **NormalProofs** | | |
| `FirstViewAgrees` | `LedgerAgreement` | while every correct replica is in view 0, no two ledgers differ |
| `FirstViewExecutesOnce` | `ExecutesOnce` | ... a request is executed once |
| `FirstViewCommitsAgree` | `CommitAgreement` | ... all Commits are for one request |
| `FirstViewIsCertified` | `ExecutedIsCertified` | ... 2f+1 correct replicas hold the certificate of what is executed |
| `FirstViewActs` | `BackupsActOnQuorums` | ... a backup acts on every quorum, unless a broadcast has failed |
| `FirstViewTimers` | `TimerCoverage` | ... a backup with a pending request has a timer, or main is about to set one |
| **CarryProofs** | | |
| `FirstViewChangesAreValid` | `ViewChangesAreValid` | while no correct replica is beyond view 1 (`AtMostOneChange`), the ViewChanges of correct replicas are accepted |
| `ExecutedIsCarriedOver` | `ExecutedSurvives` | ... what was executed in view 0 is pre-prepared at every correct backup that is active in view 1 |
| **LedgerProofs** | | |
| `OneChangeAgrees` | `LedgerAgreement` | ... no two ledgers differ, whatever views their blocks are from |
| `ImplementsConsensus` | `RefinesConsensus` | ... the cluster implements Consensus |
| `ApartIsCertified` | `ExecutedIsCertified` | over any number of view changes, 2f+1 correct replicas hold the certificate of what is executed, or have left its view and reported it (claimed while nothing has failed), as long as main overwrites no other request (`StoresApart`) |
| `EarlyIsCertified` | `ExecutedIsCertified` | ... as long as main is done before a correct replica leaves view 0 |
| **ProgressProofs** | | |
| `TimersLeadOn` | `TimerCoverage` | over any number of view changes, a backup with a pending request has a timer for a later view, or main is about to set one, if correct replicas come to a view only by leaving theirs for it (`EntersItsView`) and main is never late (`ArmsInTime`) |
| `OneChangeTimers` | `TimerCoverage` | ... with `ArmsInTime` alone, while no correct replica is beyond view 1 |
| `AwaitedViewChangeEnds` | `ViewChangeEnds` | while no correct replica is beyond view 1, and no NewView overtakes the ViewChanges at its receiver: when nothing will happen any more, every correct replica is active in its view, or the primary of that view has too few ViewChanges and misses that of a correct replica in it (`MissesViewChange`); any ViewChange may be lost to any peer |
| `SmallestViewChangeEnds` | `ViewChangeEnds` | ... without that condition, in the program's four replicas with replica 0 Byzantine |
| `BackupsAct` | `BackupsActOnQuorums` | over any number of view changes, a backup acts on every quorum, unless a broadcast has failed, as long as the request it is to execute next holds one slot (`OneSlotEach`) |
| `LockedPrimaryActs` | `PrimaryActsOnQuorums` | while every correct replica is in view 0 and no broadcast has failed, a primary whose main holds the lock acts on every quorum |
| **ChainFileProofs** | | |
| `ChainTypeCorrect` | `ChainTypeOK` | the types of the file and of what was reported |
| `ChainLinked` | `ChainIsLinked` | what can be read is a chain from the genesis block on |
| `ChainAdded` | `ChainIsAdded` | what can be read is what was reported as added, and possibly an unfinished line |
| `UntornReadable` | `UntornIsReadable` | only a write that stops in its line makes a file unreadable |
| `NoLatePanic` | `PanicsBeforeFirstBlock` | no panic once a block has been added |

### Types and views

Why `EntersViewClean` matters: `processNewView` handles the pre-prepares of a
NewView in a loop in the view it has just entered. If receipts for that view were
already there, the loop would send Commits and execute. That it does not is used
in the model (`ProcessNewView` needs no commit phase) and is the theorem.

The argument. Every method stands in one of four relations to the state it
starts from: `Keeps` (view and receipts unchanged), `Within` (receipts of one
view are added), `Leaves` (to a later view, inactive, no receipts) or `Enters`
(active in a view not lower, after `cleanupState`). There is one lemma for each
method, built from those of the methods it calls. Each relation gives a
`ViewStep`: the view does not fall, and `Clean` is preserved. The inductive
invariant is

    Inv == TypeOK /\ EntersViewClean /\ MainAhead

`EntersViewClean` alone is not inductive: main holds a pre-prepare between its
two steps, and stores it after the replica may have moved on. `MainAhead` says
that the replica, if it is correct, leads the view of this pre-prepare and is in
that view or a later one. `Initially` and `InvStep` (one step per action of `Next`) give
`Spec => []Inv`, and `ViewsOnlyAdvance` follows from the same `ViewStep` of each
action.

### A view has a quorum

A replica enters a view because of messages: a primary because of 2f+1
ViewChanges, a backup because of a NewView that carries 2f+1 of them. The property
is about where the senders *are*. What connects the two is

    ViewsInv == Inv /\ Truth /\ ViewHasQuorum

`Truth`: a ViewChange under way is for a view that its sender has reached; the view
of a NewView under way has a quorum; a recorded view change is for a view that
its sender has reached, or that has a quorum (a primary whose NewView failed
records its own ViewChange and stays where it is); and each sender is recorded
once for a view. Views only grow, so what is true of one stays true, and a
message may be late.
`SendersDiffer` and `QuorumOfSenders` count the senders of distinct receipts.

The hard case is a replica that joins a view change and becomes primary in the same
handler. It joins the smallest joinable view, which could be earlier than the one
the message is for; then it would be in one view and start another.
`JoinsNoLaterView` shows that the view it joins is never later than the one it
has 2f+1 view changes for: at least 2f of these come from others, and 2f is f+1
or more, so that view is joinable too.

`ImplementsViews` maps each step of the cluster to a step of Views
(`NextMove`: one replica leaves, enters, or counts its view up as a Byzantine one
does; `ViewMoveRefines`) or to a stutter.

### Agreement in a slot

A slot's Prepares and Commits are counted without looking at their digests, so
agreement rests on nobody ever *saying* two things about one slot (a view and a
sequence number). A digest is *claimed* for a slot when a backup holds its
pre-prepare, or a Prepare, a Commit (under way or received) or a NewView says it
(`Claimed`). The primary has two ways to say something in its view, and nothing
in the code keeps their numbers apart: its NewView uses the numbers of the
certificates, and its own proposals count on from `sequence`, which starts at
0 (`new_view.go`, `request.go`). `new_primary_overwrites` shows the two collide.

    AgreementInv == ViewsInv /\ SlotInv

The heart of `SlotInv` is `ClaimsFit`: every claim for a slot fits (`Fits`) what
is already there. All other claims for the slot have the same digest, and every
*proposal* of the primary under way for it has it as well, or comes too late: it
is blocked at every backup (`Blocked`), because the backup is not yet active in
the view, and the NewView that takes it there fills the slot first, or because
it is and the slot is full, or because it is past the view. The other parts say
what `ClaimsFit` needs to survive a step: messages go to others (`ToOthers`), the
numbers the primary has used are those it has counted (`Numbered`), a NewView is
sent by the primary that has entered its view (`NewViewsStarted`), a backup is
active in a later view only after its primary (`BackupsFollow`), and a primary knows the requests it has proposed (`Known`).

The lemmas on methods say what a method adds to what is said: `Repeats` (only
what the message it handles says), `Proposes` (new numbers, in order) and
`Opens` (a view, with a NewView and what follows it); one lemma says how a step
with such a method keeps `ClaimsFit`.

`NewViewsArrive` is needed. A primary whose NewView broadcast fails has told some
backups one thing, stays in the view change, and builds a second NewView from
more certificates: `newview_error` is that behaviour, and it violates
`CommitAgreement` and `PrePreparesAgree` as well. `BackupsAgree` is `ClaimsFit` for two
backups: what each holds is a claim.

### The normal case

main proposes one request at the primary of view 0, so the first view has one
slot and one request that can be in it. `FirstInv` says of a cluster whose
correct replicas are all in view 0:

- what a correct replica holds is for that slot (`HoldsFirst`), and its own Commit,
  its ledger and its timer are as they should be (`DoneFirst`);
- a backup has acted on its quorums, if nothing has failed (`Acted`);
- **a Commit, under way or received, comes from a correct replica that is prepared**
  (`SaidTruly`). The certificate stays, because in one view receipts are only
  added: this is what makes counting Commits count certificates, although the
  code never looks at the digests of what it counts;
- main proposes once, and the pre-prepare it holds between its two steps is the
  one it has broadcast (`ProposesOnce`).

`Inv /\ FirstInv` is inductive. A step out of view 0 makes the hypothesis of
`FirstInv` false for good, since views only grow; a view change that does *not*
lead out of view 0 leaves all of this alone (`Undisturbed`). There is one lemma for
each method (`Does`) and one for each action. `FirstViewIsCertified` then counts:
the 2f+1 receipts that made a replica execute have as many senders (`OneMessage`),
all of them correct and prepared: these are the 2f+1 that `ExecutedIsCertified` asks for.

The hypothesis cannot be dropped: `newview_error`, `lost_certificate` and
`double_execution` show that `LedgerAgreement` and `ExecutesOnce` fail after a view change. It
is also as far as the normal case goes in the program, which injects its requests
once.

### One view change

`ExecutedSurvives` relates what a replica has executed in view 0 to what others
accept in view 1, and all that connects the two is a count. A replica executes
when 2f+1 replicas are certified (`Secured`); a replica leaves its view as certified as
it is, and its ViewChange says so (`Reports`); so a NewView that forgets
the request carries 2f+1 ViewChanges of replicas that left without a certificate
(`Forgotten`). If quorums meet, both cannot be.

The difficulty is that the state does not show it: `cleanupState` drops the
certificate when the replica enters view 1. Who left view 0 certified is therefore
the parameter `C` of the invariant,

    CarryInv == AtMostOneChange => \E C \in SUBSET Correct : Carry(C)

and each step says what `C` becomes (`LeftWith`). `Follows` is what one step
does to what is known of the others: who was certified stays in the count, and
who has left without stays out of it. So `Secured` and `Forgotten` stay true, and with
them whatever was reported, sent or received (`ReportsStay`, `SendsStay`,
`HeldStays`). `Carry(C)` says of every correct replica (`Local`) that

- what it holds from view 0 is the one proposal of that view, each Commit there
  is from a certified replica, and each ViewChange is a true report (`HeldTruly`);
- it leaves view 0 once, and keeps its certificate till it enters view 1
  (`LeftTruly`);
- if it has executed in view 0, a quorum is certified (`WroteTruly`);
- unless view 0 is forgotten, it has the request in slot (1, 1) when it is active in
  view 1, and nothing it holds or executes there contradicts it (`CarriedOver`);

and the same of every message under way (`Sends`). Every method of the normal case is an
`Attests`, every method of the view change is a `Turns` or `Starts`, and each action
has its lemma. The hardest is `StartedCarries`: the primary of view 1 must be in
the view change itself when it counts, because its own ViewChange counts too
(`JoinsNextView`).

This holds whatever fails, the broadcast of a NewView included, and while main races
the handlers. A Byzantine primary of view 0 that proposes in view 1, which it
does not lead, is in it as well.

`OneChangeAgrees` adds the ledgers. Two blocks at the same height from views 0 and
1: the first is carried over. Two from the same view: a replica has written its
block with a Commit for it in hand (`Voted`), and the Commits of a view agree
(`CommitsAgree`, hence `NewViewsArrive`). The inductive invariant is
`LedgerInv == AgreementInv /\ CarryInv /\ AllVoted`.

The hypothesis is as far as it goes: after a second view change the certificate
is gone (`lost_certificate`).

`ImplementsConsensus` maps each step of the cluster to a step of Consensus or a
stutter. A step that makes a ledger longer makes one ledger longer by one block:
that block is the one that the others have at this height (`LedgerAgreement` in
the state after the step), so that the ledgers remain copies of one log. And the
log holds what main has injected: whatever a message, a receipt or a block names
is a null request or was passed on by main before (`Requested`,
`KnowsRequested`), and until main has begun nothing happens at all
(`NothingBeforeMain`).

`ApartIsCertified` follows the Commits. A correct replica *vouches* for a request in a slot
when it is prepared there, or has gone on to a later view and has a ViewChange of its own
recorded that reports it, or something has failed (`Vouches`), and the
invariant `CertInv` says that the sender of every Commit, under way or received,
is a correct replica that vouches for it (`CommitsVouched`), and that a quorum of
correct replicas vouches for every block (`BlocksVouched`). It vouches when it
sends the Commit. It goes on vouching because handlers only add to a slot, and
because because the ViewChange with which it leaves the view reports all its certificates, and
is recorded unless its broadcast fails: no receipt of its own stands in the way
(`OwnReports`), and receipts of view changes are never dropped. A view that is entered is
one in which nothing was held (`EntersViewClean`, through `LeavingVouches`). When a block is written its slot
has a quorum of Commits, all for this one request (`CommitAgreement`), whose
senders vouch for it (`CountedVouch`). What remains is main, which stores into a
primary without asking what the slot holds by now: `StoresApart`.

### Timers

`TimerCoverage` says that a timer is there. The invariant, `TimersInv`, also says
where it leads (`Timed`): a timer of a correct replica, active or not, is for the view
after the one the replica is in, and it runs or its callback is waiting (`Covered`).
Between stopping one timer and setting the next, main holds what makes up for it
(`ArmsAhead`): the target it has read is a later view than the replica's.
An inactive replica may have one, because main arms a timer at any backup
(`request.go:45`), and `processNewView` does not replace it (`new_view.go:300`).
There is one lemma for each method. Methods of the normal case keep the view
and restart the timer as needed; a method that leaves the view leaves no timer. What
remains is entering: a replica that enters the view it has left its last one for
has no timer then, or main's, for the view after it. A replica that waits for a
view and is taken into a later one may keep a timer for the view it enters,
which leads nowhere. `EntersItsView` says that no step does this; with one view
change none can, because the first view is never waited for (`FirstIsActive`). And
main may hold its target for too long. `ArmsInTime` says that it does not: the
timer is set while its view is still to come.

### A view change ends

`ViewChangeEnds` is about states in which nothing will happen any more
(`Silent`), and needs no fairness. Replica 0 is silent, so in the first view
nobody handles a message of the normal case (`NothingFirst`), and every correct
replica has main's timer until it leaves (`FirstWaits`). The inductive invariant
`ChangeInv` says

- `Announced`: while replica 1 has not started view 1, every other correct
  replica that has come to it has its ViewChange recorded at replica 1 or under way, or
  something has failed;
- `Undecided`: replica 1 has then too few ViewChanges to join the view change, or has
  joined it and has too few to start the view, its own among them unless something has
  failed;
- `Told`: once it has started the view, every correct replica is active in it, or the
  NewView is under way to it.

and rests on `AgreementInv`, `CarryInv` and `TimersInv`. `SilentEnds` counts: when nothing is under way and no timer runs, every correct
replica has left view 0. Either the primary has a ViewChange of each of them; these
are 2f+1, so it is active, and so are those it has told. Or it misses one, which
only a failure explains, and if it has too few without it the property excepts this.

What breaks `Told` is a NewView that comes to a replica still active in view 0,
which drops it (`isMessageAllowed`) and never gets another. That is the condition
`NewViewsAwaited`. In four replicas with replica 0 silent it holds by itself,
because the primary of view 1 needs the ViewChanges of all three others before
it sends anything; `QuietInv` says why replica 0 sends none: it is never timed
(`Untimed`), so it has no part in a view change (`Mute`), and the view changes
that replica 1 has started with (`Led`) are those of all the others.

### Backups act

A quorum is acted on by the handler that completes it, and there is no second
chance. `Acted` of NormalProofs says so of the one slot of view 0. `BackupsAct` says it of every
slot of every view. Its invariant `AllHeed` says of an active backup (`Heeds`) that

- it knows the requests of its view;
- it has sent a Commit of its own only for what is prepared;
- it has acted on each slot of its view (`ActsIn`): sent its Commit once prepared,
  executed once committed if the slot is the next to be executed.

The handlers never compare the digest of a Prepare or a Commit with the
pre-prepare of the slot. They act for the digest of the *message*, so that the two
agree is what `AgreementInv` is for: both are claims (`ClaimsFit`). A handler then acts on
the slot of its message and adds nothing to any other (`HandlerHeeds`), and an own
Commit is the sign that the slot has been acted on before (`HeedsSlot`). A backup that
enters a view has nothing there but what the NewView brings (`EntersViewClean`): its
own Prepares, which are too few for a quorum.

### The primary and the lock

`PrimaryActsOnQuorums` is false in the program, because main stores the
pre-prepare some time after its broadcast and nothing looks at the quorum again
(`main_race`). `LockedPrimaryActs` shows that the lock is all that is missing. In
`LockedSpec` nothing else happens while main is at a replica. `LockInv`: until
main has come back from the first primary, nobody has sent it anything, so the
pre-prepare is stored before any Prepare for it can be there; from then on the
primary acts on its quorums as a backup does (`Acted`), which the lemmas of
NormalProofs already carry through every handler.

### The chain file

`ChainInv` strengthens the properties by three facts about the file: in one that
can be read every line but the last is finished (`LinesFinished`); if no write
has stopped in its line, every line is whole (`UntornIsWhole`); before main has
created the file nothing has happened (`NothingYet`). One lemma says what each kind of
write makes of the last line (`NewLine`, `LongerHash`), and there is one for each
operation (`CreateStep`, `AddBlockStep`).

TLC has checked `ViewsInv`, `SlotInv`, `FirstInv`, `AllHeed`, `CarryInv`, `TimersInv`, `EndsInv`
and the parts of `CertInv` and `ChainInv` as invariants of the instances of section 3 before they were proved.

### Only model-checked

- Beyond the first view, where the request to be executed next holds two slots (not
  `OneSlotEach`), `BackupsActOnQuorums` may be false, and `ExecutesOnce` is false there
  in any case (`double_execution`).
- `ExecutedIsCertified` where main overwrites (not `StoresApart`), or the
  broadcast of a NewView fails.
- Beyond the second view: `LedgerAgreement`, `ExecutedSurvives` and with them
  `RefinesConsensus` are false (`lost_certificate`), and so is `ViewChangesAreValid`
  (section 3): the primary of view 1 mixes what it overwrites.
- `TimerCoverage` where a replica is taken on from a view it waits for to a later
  one (not `EntersItsView`), which no run reaches, and where main is late (not
  `ArmsInTime`), where it is false.
- `PrimaryActsOnQuorums` after a view change, and `ViewChangeEnds` with a correct
  replica 0: they hold only for the schedules and failures of their runs
  (`main_race` and `stuck_view_change` show why).
- Liveness: TLAPS 1.4.5 has no ENABLED, so nothing that rests on fairness can be proved.

No module declares a RECURSIVE operator.

## 5. The plan

Done, in this order: PBFTCore, PBFTMessages, PBFTReplica, PBFT and
PBFTProperties with their runs; PBFTProofs; ChainFile; Views, Consensus and the
refinements; failures in the view change and in the normal case; ViewsProofs,
ChainFileProofs, NormalProofs; AgreementProofs; CarryProofs, LedgerProofs;
ProgressProofs. What would come next:

1. Two view changes without a schedule. `lost_certificate` follows one behaviour
   with `MaxView = 2`; all of them are out of TLC's reach with four replicas. What is left
   there: a timer of a view waited for that is kept in the view entered (`new_view.go:300`),
   and certificates from two views in one NewView.
2. That `OneSlotEach` (in `BackupsAct`) is false only if main is late, as
   `StoresApart` is (`EarlyIsCertified`).
3. The steps within `MainProposes`, for a replica that leads a view after the first while
   main is at it: the properties about numbers would have to be asked again.
4. Requests injected after a view change, if the program ever does that.

Not modelled, and why:

- **Host wiring** (`pBFT_host.go`, `main.go`): connects the hosts that main has
  created, before anything of the protocol happens. What comes of it, that each replica
  knows the same list of peers, is `Replica`.
- **Configuration** (`config.go`, `params.go`): durations and
  protocol names. Time is not modelled.
- **Tracing** (`tracing.go`, spans, log messages): nothing reads them.
- **The JSON text** of messages: what decoding refuses is `Decodes`; field names and
  layout have no effect on the protocol.
- **Requests from clients**: no code sends a `Request` message, although
  `processMessage` would take one, and no execution is recorded that `send` could
  report.
