----------------------------- MODULE ChainFile ------------------------------
(***************************************************************************)
(* The chain file of one replica (block.go, and exeAddBlock of execute.go) *)
(* on a file system whose calls may fail.  main creates the file with its  *)
(* genesis block; each execution reads it whole and appends one line.      *)
(* Neither caller does more about an error than to log it.                 *)
(*                                                                         *)
(* A write that fails may have written a part of its line.  What matters   *)
(* is how many commas are there, since a line is parsed by its commas.     *)
(*                                                                         *)
(* The file is named after the peer's ID, which is new in every process:   *)
(* it is never that of an earlier run.                                     *)
(***************************************************************************)
EXTENDS Naturals, Sequences

CONSTANTS Digest,         \* the digests of requests
          NoHash,         \* the empty string
          Piece,          \* a text that is no digest, but a part of one or more
          Missing,        \* there is no file
          MaxExecutions   \* bound: how often the replica executes

ASSUME ChainAssumption ==
    /\ NoHash \notin Digest
    /\ Piece \notin Digest \cup {NoHash}
    /\ Missing # <<>>
    /\ MaxExecutions \in Nat

VARIABLES file,      \* Missing, or the lines of the file
          started,   \* main has created the replica and its file
          crashed,   \* the process has panicked
          added,     \* the digests of the blocks reported as added
          executed,  \* how many requests have been executed
          torn       \* a write has failed in the middle of its line

vars == <<file, started, crashed, added, executed, torn>>

Hash == Digest \cup {NoHash, Piece}

\* A line is whole, or it lacks the end of its hash or its newline (cut), or it
\* does not have three fields (junk).
Line == [prev : Hash, height : Nat, hash : Hash, form : {"whole", "cut", "junk"}]

Genesis == [prev |-> NoHash, height |-> 0, hash |-> NoHash, form |-> "whole"]

-----------------------------------------------------------------------------
\* loadBlockchainFromFile succeeds.  It takes a last line without a newline.
Parses(f) == f # Missing /\ \A k \in DOMAIN f : f[k].form # "junk"

\* Mutants of NextBlock: the block follows the first one, or counts down.
BlockOnGenesis(f, d) ==
    [prev |-> f[1].hash, height |-> f[1].height + 1, hash |-> d, form |-> "whole"]

BlockCountingDown(f, d) ==
    [prev |-> f[Len(f)].hash, height |-> f[Len(f)].height - 1, hash |-> d, form |-> "whole"]

\* The block for digest d on the last block of f.
NextBlock(f, d) ==
    [prev |-> f[Len(f)].hash, height |-> f[Len(f)].height + 1, hash |-> d, form |-> "whole"]

HasCutLine(f) == f # <<>> /\ f[Len(f)].form = "cut"

\* Mutant of Whole: a line is written without its newline.
WithoutNewline(f, b) ==
    IF HasCutLine(f) THEN [f EXCEPT ![Len(f)].form = "junk"]
                     ELSE Append(f, [b EXCEPT !.form = "cut"])

\* A line after a line without a newline makes one line of five fields.
Whole(f, b) ==
    IF HasCutLine(f) THEN [f EXCEPT ![Len(f)].form = "junk"] ELSE Append(f, b)

\* What a failed write of line b may leave behind that is not f.  The line stops
\* within its hash, or before that, or (if it goes on a cut line) before its
\* first comma.
Torn(f, b) ==
    IF HasCutLine(f)
      THEN {[f EXCEPT ![Len(f)].form = "junk"]}
             \cup IF b.prev = NoHash THEN {} ELSE {[f EXCEPT ![Len(f)].hash = Piece]}
      ELSE {Append(f, [b EXCEPT !.form = "junk"]), Append(f, [b EXCEPT !.form = "cut"])}
             \cup IF b.hash = NoHash THEN {}
                  ELSE {Append(f, [b EXCEPT !.form = "cut", !.hash = Piece])}

-----------------------------------------------------------------------------
Init ==
    /\ file = Missing
    /\ started = FALSE
    /\ crashed = FALSE
    /\ added = <<>>
    /\ executed = 0
    /\ torn = FALSE

\* appendBlockToBlockchain, when it writes the line ...
AppendSucceeds(f, b) == file' = Whole(f, b) /\ UNCHANGED torn

\* Mutant of AppendFails: the file is opened with O_TRUNC.
FailsTruncated(f, b) == file' = <<>> /\ UNCHANGED torn

\* ... and when it returns an error.
AppendFails(f, b) ==
    \/ file' = f /\ UNCHANGED torn
    \/ file' \in Torn(f, b) /\ torn' = TRUE

\* newBlockWithPrevBlockchain, called by main: creating the file fails, or
\* writing the genesis block does, or both succeed.
CreateChain ==
    /\ ~started
    /\ started' = TRUE
    /\ \/ UNCHANGED <<file, torn>>
       \/ AppendSucceeds(<<>>, Genesis)
       \/ AppendFails(<<>>, Genesis)
    /\ UNCHANGED <<crashed, added, executed>>

Executes ==
    /\ started /\ ~crashed
    /\ executed < MaxExecutions
    /\ executed' = executed + 1
    /\ UNCHANGED started

\* exeAddBlock: the file cannot be read ...
LoadFails ==
    /\ Executes
    /\ UNCHANGED <<file, crashed, added, torn>>

\* ... or it has no block, and the index of the last one is -1 ...
NoLastBlock ==
    /\ Executes
    /\ file = <<>>
    /\ crashed' = TRUE
    /\ UNCHANGED <<file, added, torn>>

\* Mutant of AddBlock: the error of the write is not returned.
AddBlockAlways(d) ==
    /\ Executes
    /\ Parses(file) /\ file # <<>>
    /\ \/ AppendSucceeds(file, NextBlock(file, d))
       \/ AppendFails(file, NextBlock(file, d))
    /\ added' = Append(added, d)
    /\ UNCHANGED crashed

\* ... or the block is written, or not.
AddBlock(d) ==
    /\ Executes
    /\ Parses(file) /\ file # <<>>
    /\ \/ AppendSucceeds(file, NextBlock(file, d)) /\ added' = Append(added, d)
       \/ AppendFails(file, NextBlock(file, d)) /\ UNCHANGED added
    /\ UNCHANGED crashed

Next ==
    \/ CreateChain
    \/ LoadFails
    \/ NoLastBlock
    \/ \E d \in Digest \cup {NoHash} : AddBlock(d)

Spec == Init /\ [][Next]_vars
-----------------------------------------------------------------------------
(* What whoever reads the chain file may rely on. *)

(***************************************************************************)
(* The type of the state.                                                  *)
(***************************************************************************)
ChainTypeOK ==
    /\ file \in {Missing} \cup Seq(Line)
    /\ started \in BOOLEAN
    /\ crashed \in BOOLEAN
    /\ added \in Seq(Digest \cup {NoHash})
    /\ executed \in 0 .. MaxExecutions
    /\ torn \in BOOLEAN

(***************************************************************************)
(* A file that can be read is a chain: from the genesis block on, each     *)
(* block has the next height and the hash of the block before it, whatever *)
(* writes have failed.  A hash that was cut off is never linked to.        *)
(***************************************************************************)
ChainIsLinked ==
    Parses(file) =>
       \A k \in DOMAIN file :
          /\ file[k].height = k - 1
          /\ file[k].prev = IF k = 1 THEN NoHash ELSE file[k - 1].hash
          /\ k < Len(file) => file[k].hash # Piece

(***************************************************************************)
(* The blocks of a file that can be read are those that exeAddBlock has    *)
(* reported as added, in that order and no others; an unfinished line may  *)
(* follow them.                                                            *)
(***************************************************************************)
ChainIsAdded ==
    Parses(file) =>
       /\ \A k \in DOMAIN added : /\ k + 1 \in DOMAIN file
                                  /\ file[k + 1].form = "whole"
                                  /\ file[k + 1].hash = added[k]
       /\ \A k \in DOMAIN file : k > 1 /\ file[k].form = "whole" => k - 1 \in DOMAIN added

(***************************************************************************)
(* A failed write that wrote nothing leaves the chain as it was: as long   *)
(* as no line was torn, every block reported as added can be read.         *)
(***************************************************************************)
UntornIsReadable == ~torn /\ file # Missing => Parses(file)

(***************************************************************************)
(* A replica that has added a block does not panic any more (execute.go:16 *)
(* indexes the last block of a chain that may be empty).                   *)
(***************************************************************************)
PanicsBeforeFirstBlock == crashed => added = <<>>
=============================================================================
