--------------------------- MODULE ChainFileProofs --------------------------
(***************************************************************************)
(* Proofs about the chain file of ChainFile.tla, for every set of digests  *)
(* and any number of executions and failures.  A file that can be read has *)
(* whole lines but for the last, and that is what a line appended to it    *)
(* relies on; a file that cannot be read is never written to again.        *)
(***************************************************************************)
EXTENDS ChainFile, TLAPS

\* In a file that can be read only the last line may be cut, and only a cut line
\* has a part of a hash.
LinesFinished ==
    Parses(file) =>
       \A k \in DOMAIN file : /\ file[k].form = "whole" => file[k].hash # Piece
                              /\ k < Len(file) => file[k].form = "whole"

\* As long as no write was torn, every line is whole.
UntornIsWhole ==
    ~torn /\ file # Missing => \A k \in DOMAIN file : file[k].form = "whole"

\* Nothing happens before main has created the file.
NothingYet == ~started => file = Missing /\ added = <<>> /\ ~crashed /\ ~torn

ChainInv ==
    /\ ChainTypeOK
    /\ ChainIsLinked
    /\ ChainIsAdded
    /\ PanicsBeforeFirstBlock
    /\ LinesFinished
    /\ UntornIsWhole
    /\ NothingYet

\* What an append makes of a sequence.
LEMMA AppendLine ==
  ASSUME NEW S, NEW f \in Seq(S), NEW b \in S
  PROVE  /\ Append(f, b) \in Seq(S)
         /\ Len(Append(f, b)) = Len(f) + 1
         /\ DOMAIN Append(f, b) = 1 .. Len(f) + 1
         /\ \A k \in 1 .. Len(f) : Append(f, b)[k] = f[k]
         /\ Append(f, b)[Len(f) + 1] = b
  OBVIOUS

\* The file system is not asked to link to a line it does not have: the block
\* that NextBlock makes is a line.
LEMMA NextBlockLine ==
  ASSUME NEW f \in Seq(Line), f # <<>>, NEW d \in Digest \cup {NoHash}
  PROVE  /\ NextBlock(f, d) \in Line
         /\ NextBlock(f, d).form = "whole"
         /\ NextBlock(f, d).hash = d
         /\ NextBlock(f, d).prev = f[Len(f)].hash
         /\ NextBlock(f, d).height = f[Len(f)].height + 1
         /\ d # Piece
<1>1. Len(f) \in DOMAIN f /\ f[Len(f)] \in Line
  OBVIOUS
<1> QED  BY <1>1, ChainAssumption DEF NextBlock, Line, Hash

\* A file whose line k is replaced by one of another form or hash.
LEMMA ChangedLine ==
  ASSUME NEW f \in Seq(Line), NEW k \in DOMAIN f, NEW b \in Line
  PROVE  LET g == [f EXCEPT ![k] = b] IN
         /\ g \in Seq(Line)
         /\ Len(g) = Len(f)
         /\ DOMAIN g = DOMAIN f
         /\ g[k] = b
         /\ \A j \in DOMAIN f \ {k} : g[j] = f[j]
  OBVIOUS

\* The state but for the file: what every execution leaves to show.
LEMMA BrokenFile ==
  ASSUME ChainInv, ChainTypeOK', NEW k \in DOMAIN file',
         file'[k].form = "junk", torn', crashed' => added' = <<>>, started'
  PROVE  ChainInv'
<1>1. ~Parses(file')
  BY DEF Parses
<1> QED  BY <1>1, Zenon DEF ChainInv, ChainIsLinked, ChainIsAdded, PanicsBeforeFirstBlock,
                     LinesFinished, UntornIsWhole, NothingYet

\* A step that leaves the file and the report alone.
LEMMA SameFile ==
  ASSUME ChainInv, ChainTypeOK', UNCHANGED <<file, added, torn>>, started',
         crashed' => added = <<>>
  PROVE  ChainInv'
  BY Zenon DEF ChainInv, ChainIsLinked, ChainIsAdded, PanicsBeforeFirstBlock,
               LinesFinished, UntornIsWhole, NothingYet, Parses

\* The line of a new block on a file whose last line is whole: it links to it.
\* The new line may be cut itself, but then it is not reported as added.
LEMMA NewLine ==
  ASSUME ChainInv, ChainTypeOK', Parses(file), file # <<>>, ~HasCutLine(file), started',
         crashed' => added' = <<>>,
         NEW b \in Line, b.prev = file[Len(file)].hash, b.height = file[Len(file)].height + 1,
         file' = Append(file, b),
         \/ b.form = "whole" /\ b.hash # Piece /\ torn' = torn
              /\ b.hash \in Digest \cup {NoHash} /\ added' = Append(added, b.hash)
         \/ b.form = "cut" /\ torn' /\ added' = added
  PROVE  ChainInv'
<1> DEFINE n == Len(file)
<1>1. file \in Seq(Line) /\ n \in Nat \ {0} /\ DOMAIN file = 1 .. n /\ n \in 1 .. n
  BY DEF ChainInv, ChainTypeOK, Parses
<1>2. /\ Len(file') = n + 1
      /\ DOMAIN file' = 1 .. n + 1
      /\ \A k \in 1 .. n : file'[k] = file[k]
      /\ file'[n + 1] = b
  BY <1>1, AppendLine
<1>n. n \in Nat /\ n >= 1 /\ n = Len(file)
  BY <1>1
<1> HIDE DEF n
<1>3. /\ added \in Seq(Digest \cup {NoHash}) /\ Len(added) \in Nat
      /\ DOMAIN added = 1 .. Len(added)
      /\ torn \in BOOLEAN
  BY DEF ChainInv, ChainTypeOK
<1>4. \A k \in 1 .. n : file[k].form = "whole" /\ file[k].hash # Piece
  <2>1. \A k \in 1 .. n : file[k] \in Line /\ file[k].form # "junk"
    BY <1>1, <1>n DEF Parses
  <2>2. file[n].form = "whole"
    BY <2>1, <1>1, <1>n DEF HasCutLine, Line
  <2>3. \A k \in 1 .. n : k = n \/ k < n
    BY <1>n
  <2> QED  BY <2>2, <2>3, <1>1, <1>n DEF ChainInv, LinesFinished
<1>5. Len(added) = n - 1
  <2>1. \A k \in 1 .. Len(added) : k + 1 \in 1 .. n
    BY <1>1, <1>3 DEF ChainInv, ChainIsAdded
  <2>2. \A k \in 1 .. n : k > 1 => k - 1 \in 1 .. Len(added)
    BY <1>1, <1>3, <1>4 DEF ChainInv, ChainIsAdded
  <2>3. Len(added) >= 1 => Len(added) + 1 \in 1 .. n
    BY <2>1, <1>3
  <2>4. n > 1 => n - 1 \in 1 .. Len(added)
    BY <2>2, <1>1
  <2>5. Len(added) \in Nat
    BY <1>3
  <2> QED  BY <2>3, <2>4, <2>5, <1>n
<1>6. ChainIsLinked'
  <2>1. \A k \in 1 .. n : /\ file[k].height = k - 1
                          /\ file[k].prev = IF k = 1 THEN NoHash ELSE file[k - 1].hash
    BY <1>1, <1>n DEF ChainInv, ChainIsLinked
  <2>2. \A k \in 1 .. n + 1 : k # n + 1 => k \in 1 .. n
    BY <1>n
  <2>3. \A k \in 1 .. n : k = 1 \/ k - 1 \in 1 .. n
    BY <1>n
  <2>4. b.height = (n + 1) - 1 /\ n + 1 # 1 /\ (n + 1) - 1 = n
    BY <1>1, <1>n, <2>1
  <2>5. \A k \in 1 .. n + 1 : /\ file'[k].height = k - 1
                              /\ file'[k].prev = IF k = 1 THEN NoHash ELSE file'[k - 1].hash
    BY <1>1, <1>2, <2>1, <2>2, <2>3, <2>4
  <2>6. \A k \in 1 .. n + 1 : k < Len(file') => file'[k].hash # Piece
    BY <1>1, <1>2, <1>4
  <2> QED  BY <1>2, <2>5, <2>6 DEF ChainIsLinked
<1>7. ChainIsAdded'
  <2>1. \A k \in 1 .. Len(added) : k + 1 \in 1 .. n /\ file[k + 1].hash = added[k]
    BY <1>1, <1>3 DEF ChainInv, ChainIsAdded
  <2>2. \A k \in 1 .. Len(added) : /\ k + 1 \in 1 .. n + 1
                                   /\ file'[k + 1].form = "whole"
                                   /\ file'[k + 1].hash = added[k]
    BY <2>1, <1>1, <1>2, <1>4
  <2>3. CASE b.form = "cut" /\ added' = added
    <3>1. \A k \in 1 .. n + 1 : k > 1 /\ file'[k].form = "whole" => k - 1 \in 1 .. Len(added)
      BY <2>3, <1>1, <1>2, <1>5
    <3> QED  BY <2>2, <2>3, <3>1, <1>2, <1>3 DEF ChainIsAdded
  <2>4. CASE b.form = "whole" /\ b.hash \in Digest \cup {NoHash} /\ added' = Append(added, b.hash)
    <3>1. /\ DOMAIN added' = 1 .. n
          /\ \A k \in 1 .. Len(added) : added'[k] = added[k]
          /\ added'[n] = b.hash
      <4>1. Len(added) + 1 = n
        BY <1>5, <1>n
      <4> QED  BY <2>4, <4>1, <1>3, AppendLine
    <3>2. \A k \in 1 .. n : k # n => k \in 1 .. Len(added)
      BY <1>n, <1>5
    <3>3. \A k \in 1 .. n : /\ k + 1 \in 1 .. n + 1
                            /\ file'[k + 1].form = "whole"
                            /\ file'[k + 1].hash = added'[k]
      <4>1. \A k \in 1 .. n : k + 1 \in 1 .. n + 1 /\ (k = n \/ k \in 1 .. Len(added))
        BY <3>2, <1>n
      <4>2. \A k \in 1 .. Len(added) : /\ file'[k + 1].form = "whole"
                                       /\ file'[k + 1].hash = added'[k]
        BY <2>2, <3>1
      <4>3. file'[n + 1].form = "whole" /\ file'[n + 1].hash = added'[n]
        BY <2>4, <3>1, <1>2
      <4> QED  BY <4>1, <4>2, <4>3
    <3>4. \A k \in 1 .. n + 1 : k > 1 => k - 1 \in 1 .. n
      BY <1>n
    <3> QED  BY <3>1, <3>3, <3>4, <1>2 DEF ChainIsAdded
  <2> QED  BY <2>3, <2>4
<1>8. LinesFinished'
  <2>1. \A k \in 1 .. n + 1 : k # n + 1 => k \in 1 .. n
    BY <1>n
  <2>2. \A k \in 1 .. n + 1 : /\ file'[k].form = "whole" => file'[k].hash # Piece
                              /\ k < n + 1 => file'[k].form = "whole"
    BY <2>1, <1>1, <1>2, <1>4
  <2> QED  BY <2>2, <1>2 DEF LinesFinished
<1>9. UntornIsWhole'
  <2>1. \A k \in 1 .. n + 1 : k # n + 1 => k \in 1 .. n
    BY <1>n
  <2>2. CASE b.form = "whole"
    <3>1. \A k \in 1 .. n + 1 : file'[k].form = "whole"
      BY <2>1, <2>2, <1>2, <1>4
    <3> QED  BY <3>1, <1>2 DEF UntornIsWhole
  <2>3. CASE torn'
    BY <2>3 DEF UntornIsWhole
  <2> QED  BY <2>2, <2>3
<1> QED  BY <1>6, <1>7, <1>8, <1>9, Zenon DEF ChainInv, PanicsBeforeFirstBlock, NothingYet

\* A failed write after a cut line that only got as far as the line's first
\* field: the cut line now has a longer hash, which is no digest.
LEMMA LongerHash ==
  ASSUME ChainInv, ChainTypeOK', Parses(file), HasCutLine(file), started',
         crashed' => added' = <<>>,
         file' = [file EXCEPT ![Len(file)].hash = Piece], torn', added' = added
  PROVE  ChainInv'
<1> DEFINE n == Len(file)
<1> DEFINE b == [file[n] EXCEPT !.hash = Piece]
<1>1. file \in Seq(Line) /\ n \in Nat \ {0} /\ DOMAIN file = 1 .. n /\ n \in 1 .. n
  BY DEF ChainInv, ChainTypeOK, Parses, HasCutLine
<1>2. /\ b \in Line /\ b.prev = file[n].prev /\ b.height = file[n].height
      /\ b.form = "cut" /\ file[n].form = "cut"
  <2>1. file[n] \in Line /\ file[n].form = "cut"
    BY <1>1 DEF HasCutLine
  <2> QED  BY <2>1 DEF Line, Hash
<1>3. /\ Len(file') = n
      /\ DOMAIN file' = 1 .. n
      /\ file'[n] = b
      /\ \A j \in (1 .. n) \ {n} : file'[j] = file[j]
  <2>1. file' = [file EXCEPT ![n] = b]
    BY <1>1
  <2> HIDE DEF b
  <2> QED  BY <2>1, <1>1, <1>2, ChangedLine
<1> HIDE DEF b
<1>4. ChainIsLinked'
  <2>1. \A k \in 1 .. n : /\ file[k].height = k - 1
                          /\ file[k].prev = IF k = 1 THEN NoHash ELSE file[k - 1].hash
                          /\ k < n => file[k].hash # Piece
    BY <1>1 DEF ChainInv, ChainIsLinked
  <2>2. \A k \in 1 .. n : k = 1 \/ k - 1 \in (1 .. n) \ {n}
    BY <1>1
  <2>3. \A k \in 1 .. n : file'[k].height = file[k].height /\ file'[k].prev = file[k].prev
    BY <1>2, <1>3
  <2>4. \A k \in 1 .. n : /\ file'[k].height = k - 1
                          /\ file'[k].prev = IF k = 1 THEN NoHash ELSE file'[k - 1].hash
    BY <1>3, <2>1, <2>2, <2>3
  <2>5. \A k \in 1 .. n : k < n => file'[k].hash # Piece
    BY <1>1, <1>3, <2>1
  <2> QED  BY <1>3, <2>4, <2>5 DEF ChainIsLinked
<1>5. ChainIsAdded'
  <2>1. /\ \A k \in DOMAIN added : /\ k + 1 \in 1 .. n
                                   /\ file[k + 1].form = "whole"
                                   /\ file[k + 1].hash = added[k]
        /\ \A k \in 1 .. n : k > 1 /\ file[k].form = "whole" => k - 1 \in DOMAIN added
    BY <1>1 DEF ChainInv, ChainIsAdded
  <2>2. \A k \in DOMAIN added : k + 1 \in (1 .. n) \ {n}
    BY <2>1, <1>2
  <2>3. \A k \in 1 .. n : file'[k].form = file[k].form
    BY <1>2, <1>3
  <2> QED  BY <2>1, <2>2, <2>3, <1>3 DEF ChainIsAdded
<1>6. LinesFinished'
  <2>1. \A k \in 1 .. n : /\ file[k].form = "whole" => file[k].hash # Piece
                          /\ k < n => file[k].form = "whole"
    BY <1>1 DEF ChainInv, LinesFinished
  <2> QED  BY <2>1, <1>1, <1>2, <1>3 DEF LinesFinished
<1> QED  BY <1>4, <1>5, <1>6, Zenon DEF ChainInv, PanicsBeforeFirstBlock, NothingYet, UntornIsWhole

\* What may be in a file after an append is lines.
LEMMA AppendedLines ==
  ASSUME NEW f \in Seq(Line), NEW b \in Line
  PROVE  /\ Whole(f, b) \in Seq(Line)
         /\ Torn(f, b) \subseteq Seq(Line)
<1>1. [b EXCEPT !.form = "junk"] \in Line /\ [b EXCEPT !.form = "cut"] \in Line
  BY DEF Line
<1>2. [b EXCEPT !.form = "cut", !.hash = Piece] \in Line
  BY DEF Line, Hash
<1>3. CASE HasCutLine(f)
  <2>1. Len(f) \in DOMAIN f /\ f[Len(f)] \in Line
    BY <1>3 DEF HasCutLine
  <2>2. /\ [f[Len(f)] EXCEPT !.form = "junk"] \in Line
        /\ [f[Len(f)] EXCEPT !.hash = Piece] \in Line
    BY <2>1 DEF Line, Hash
  <2>3. /\ [f EXCEPT ![Len(f)].form = "junk"] \in Seq(Line)
        /\ [f EXCEPT ![Len(f)].hash = Piece] \in Seq(Line)
    BY <2>1, <2>2
  <2> QED  BY <1>3, <2>3 DEF Whole, Torn
<1>4. CASE ~HasCutLine(f)
  BY <1>1, <1>2, <1>4 DEF Whole, Torn
<1> QED  BY <1>3, <1>4

\* Every step keeps the type of the state.
LEMMA TypeStep ==
  ASSUME ChainInv, Next
  PROVE  ChainTypeOK'
<1>1. ChainTypeOK
  BY DEF ChainInv
<1>2. CASE CreateChain
  <2>1. Genesis \in Line /\ <<>> \in Seq(Line)
    BY DEF Genesis, Line, Hash
  <2>2. Whole(<<>>, Genesis) \in Seq(Line) /\ Torn(<<>>, Genesis) \subseteq Seq(Line)
    BY <2>1, AppendedLines
  <2>3. file' \in {Missing} \cup Seq(Line) /\ torn' \in BOOLEAN
    BY <1>1, <1>2, <2>1, <2>2 DEF CreateChain, AppendSucceeds, AppendFails, ChainTypeOK
  <2> QED  BY <1>1, <1>2, <2>3 DEF CreateChain, ChainTypeOK
<1>3. CASE LoadFails \/ NoLastBlock
  <2>1. executed' \in 0 .. MaxExecutions
    BY <1>1, <1>3, ChainAssumption DEF LoadFails, NoLastBlock, Executes, ChainTypeOK
  <2> QED  BY <1>1, <1>3, <2>1 DEF LoadFails, NoLastBlock, Executes, ChainTypeOK
<1>4. CASE \E d \in Digest \cup {NoHash} : AddBlock(d)
  <2> PICK d \in Digest \cup {NoHash} : AddBlock(d)
    BY <1>4
  <2>1. executed' \in 0 .. MaxExecutions
    BY <1>1, ChainAssumption DEF AddBlock, Executes, ChainTypeOK
  <2>2. file \in Seq(Line) /\ file # <<>> /\ Parses(file)
    BY <1>1 DEF AddBlock, Parses, ChainTypeOK
  <2>3. NextBlock(file, d) \in Line
    BY <2>2, NextBlockLine
  <2>4. Whole(file, NextBlock(file, d)) \in Seq(Line) /\ Torn(file, NextBlock(file, d)) \subseteq Seq(Line)
    BY <2>2, <2>3, AppendedLines
  <2>5. file' \in Seq(Line) /\ torn' \in BOOLEAN
    BY <1>1, <2>2, <2>4 DEF AddBlock, AppendSucceeds, AppendFails, ChainTypeOK
  <2>6. added' \in Seq(Digest \cup {NoHash})
    BY <1>1 DEF AddBlock, ChainTypeOK
  <2> QED  BY <1>1, <2>1, <2>5, <2>6 DEF AddBlock, Executes, ChainTypeOK
<1> QED  BY <1>2, <1>3, <1>4 DEF Next

\* main creates the file: it has at most one line, and no block is reported.
LEMMA CreateStep ==
  ASSUME ChainInv, ChainTypeOK', CreateChain
  PROVE  ChainInv'
<1>1. file = Missing /\ added = <<>> /\ ~crashed /\ ~torn
  BY DEF ChainInv, NothingYet, CreateChain
<1>2. started' /\ added' = <<>> /\ ~crashed'
  BY <1>1 DEF CreateChain
<1>3. CASE file' = file /\ torn' = torn
  BY <1>1, <1>2, <1>3, SameFile
<1>4. CASE file' = <<>>
  BY <1>2, <1>4 DEF ChainInv, ChainIsLinked, ChainIsAdded, PanicsBeforeFirstBlock,
                    LinesFinished, UntornIsWhole, NothingYet
<1>5. ASSUME NEW b, file' = <<b>>, b.prev = NoHash, b.height = 0, b.hash = NoHash,
             torn' \/ b.form = "whole"
      PROVE  ChainInv'
  <2>1. Len(file') = 1 /\ DOMAIN file' = {1} /\ file'[1] = b
    BY <1>5
  <2>2. NoHash # Piece /\ 1 - 1 = 0 /\ ~(1 < 1) /\ ~(1 > 1)
    BY ChainAssumption
  <2>3. ChainIsLinked'
    BY <2>1, <2>2, <1>5 DEF ChainIsLinked
  <2>4. ChainIsAdded'
    BY <2>1, <2>2, <1>2 DEF ChainIsAdded
  <2>5. LinesFinished'
    BY <2>1, <2>2, <1>5 DEF LinesFinished
  <2>6. UntornIsWhole'
    BY <2>1, <1>5 DEF UntornIsWhole
  <2> QED  BY <1>2, <2>3, <2>4, <2>5, <2>6 DEF ChainInv, PanicsBeforeFirstBlock, NothingYet
<1>6. ~HasCutLine(<<>>)
  BY DEF HasCutLine
<1>7. CASE AppendSucceeds(<<>>, Genesis)
  <2>1. file' = <<Genesis>>
    BY <1>6, <1>7 DEF AppendSucceeds, Whole
  <2> QED  BY <2>1, <1>5 DEF Genesis
<1>8. CASE AppendFails(<<>>, Genesis)
  <2>1. CASE file' \in Torn(<<>>, Genesis) /\ torn' = TRUE
    <3>1. \/ file' = <<[Genesis EXCEPT !.form = "junk"]>>
          \/ file' = <<[Genesis EXCEPT !.form = "cut"]>>
      BY <2>1, <1>6 DEF Torn, Genesis
    <3> QED  BY <2>1, <3>1, <1>5 DEF Genesis
  <2> QED  BY <2>1, <1>4, <1>8 DEF AppendFails
<1> QED  BY <1>3, <1>7, <1>8 DEF CreateChain

\* exeAddBlock on a file that can be read.
LEMMA AddBlockStep ==
  ASSUME ChainInv, ChainTypeOK', NEW d \in Digest \cup {NoHash}, AddBlock(d)
  PROVE  ChainInv'
<1> DEFINE b == NextBlock(file, d)
           n == Len(file)
<1>1. file \in Seq(Line) /\ file # <<>> /\ Parses(file) /\ n \in 1 .. n /\ DOMAIN file = 1 .. n
  BY DEF ChainInv, ChainTypeOK, AddBlock, Parses
<1>2. started' /\ ~crashed'
  BY DEF AddBlock, Executes
<1>3. /\ b \in Line /\ b.form = "whole" /\ b.hash = d /\ d # Piece
      /\ b.prev = file[n].hash /\ b.height = file[n].height + 1
  BY <1>1, NextBlockLine
<1> HIDE DEF b
<1>4. CASE HasCutLine(file)
  <2>1. torn
    BY <1>1, <1>4 DEF ChainInv, UntornIsWhole, HasCutLine, Parses
  <2>2. torn'
    BY <2>1 DEF AddBlock, AppendSucceeds, AppendFails
  <2>3. CASE file' = [file EXCEPT ![n].form = "junk"]
    <3>1. n \in DOMAIN file' /\ file'[n].form = "junk"
      <4>1. file[n] \in Line
        BY <1>1
      <4> QED  BY <1>1, <2>3, <4>1 DEF Line
    <3> QED  BY <1>2, <2>2, <3>1, BrokenFile
  <2>4. CASE file' = [file EXCEPT ![n].hash = Piece] /\ added' = added
    BY <1>1, <1>2, <1>4, <2>2, <2>4, LongerHash
  <2>5. CASE file' = file /\ added' = added /\ torn' = torn
    BY <1>2, <2>5, SameFile
  <2> QED  BY <1>4, <2>3, <2>4, <2>5 DEF AddBlock, AppendSucceeds, AppendFails, Whole, Torn, b
<1>5. CASE ~HasCutLine(file)
  <2>1. CASE file' = Append(file, b) /\ torn' = torn /\ added' = Append(added, d)
    BY <1>1, <1>2, <1>3, <1>5, <2>1, NewLine
  <2>2. CASE file' = file /\ added' = added /\ torn' = torn
    BY <1>2, <2>2, SameFile
  <2>3. CASE file' = Append(file, [b EXCEPT !.form = "junk"]) /\ torn' = TRUE /\ added' = added
    <3>1. [b EXCEPT !.form = "junk"] \in Line /\ [b EXCEPT !.form = "junk"].form = "junk"
      BY <1>3 DEF Line
    <3>2. n + 1 \in DOMAIN file' /\ file'[n + 1].form = "junk"
      BY <1>1, <2>3, <3>1, AppendLine
    <3> QED  BY <1>2, <2>3, <3>2, BrokenFile
  <2>4. CASE \/ file' = Append(file, [b EXCEPT !.form = "cut"]) /\ torn' = TRUE /\ added' = added
             \/ file' = Append(file, [b EXCEPT !.form = "cut", !.hash = Piece]) /\ torn' = TRUE
                  /\ added' = added
    <3>1. ASSUME NEW c \in Line, c.form = "cut", c.prev = b.prev, c.height = b.height,
                 file' = Append(file, c), torn' = TRUE, added' = added
          PROVE  ChainInv'
      BY <1>1, <1>2, <1>3, <1>5, <3>1, NewLine
    <3>2. LET c == [b EXCEPT !.form = "cut"] IN
            c \in Line /\ c.form = "cut" /\ c.prev = b.prev /\ c.height = b.height
      BY <1>3 DEF Line
    <3>3. LET c == [b EXCEPT !.form = "cut", !.hash = Piece] IN
            c \in Line /\ c.form = "cut" /\ c.prev = b.prev /\ c.height = b.height
      BY <1>3 DEF Line, Hash
    <3> QED  BY <2>4, <3>1, <3>2, <3>3
  <2> QED  BY <1>5, <2>1, <2>2, <2>3, <2>4
           DEF AddBlock, AppendSucceeds, AppendFails, Whole, Torn, b
<1> QED  BY <1>4, <1>5

\* The invariant is inductive.
LEMMA ChainInductive ==
  ASSUME ChainInv, [Next]_vars
  PROVE  ChainInv'
<1>1. CASE UNCHANGED vars
  BY <1>1, Zenon DEF vars, ChainInv, ChainTypeOK, ChainIsLinked, ChainIsAdded, Parses,
                     PanicsBeforeFirstBlock, LinesFinished, UntornIsWhole, NothingYet
<1>2. CASE Next
  <2>1. ChainTypeOK'
    BY <1>2, TypeStep
  <2>2. CASE CreateChain
    BY <2>1, <2>2, CreateStep
  <2>3. CASE LoadFails
    <3>1. started' /\ ~crashed' /\ UNCHANGED <<file, added, torn>>
      BY <2>3 DEF LoadFails, Executes
    <3> QED  BY <2>1, <3>1, SameFile
  <2>4. CASE NoLastBlock
    <3>1. started' /\ UNCHANGED <<file, added, torn>> /\ file = <<>>
      BY <2>4 DEF NoLastBlock, Executes
    <3>2. Parses(file) /\ DOMAIN file = {}
      BY <3>1, ChainAssumption DEF Parses
    <3>3. DOMAIN added = {} /\ added \in Seq(Digest \cup {NoHash})
      BY <3>2 DEF ChainInv, ChainIsAdded, ChainTypeOK
    <3>4. added = <<>>
      BY <3>3
    <3> QED  BY <2>1, <3>1, <3>4, SameFile
  <2>5. CASE \E d \in Digest \cup {NoHash} : AddBlock(d)
    BY <2>1, <2>5, AddBlockStep
  <2> QED  BY <1>2, <2>2, <2>3, <2>4, <2>5 DEF Next
<1> QED  BY <1>1, <1>2

\* It holds when the process starts, and so throughout.
LEMMA ChainInvariant == Spec => []ChainInv
<1>1. Init => ChainInv
  <2> SUFFICES ASSUME Init PROVE ChainInv
    OBVIOUS
  <2>1. ~Parses(file)
    BY DEF Init, Parses
  <2>2. ChainTypeOK
    <3>1. 0 \in 0 .. MaxExecutions
      BY ChainAssumption
    <3>2. <<>> \in Seq(Digest \cup {NoHash})
      OBVIOUS
    <3> QED  BY <3>1, <3>2, Zenon DEF Init, ChainTypeOK
  <2> QED  BY <2>1, <2>2 DEF Init, ChainInv, ChainIsLinked, ChainIsAdded,
                             PanicsBeforeFirstBlock, LinesFinished, UntornIsWhole, NothingYet
<1>2. ChainInv /\ [Next]_vars => ChainInv'
  BY ChainInductive
<1> QED  BY <1>1, <1>2, PTL DEF Spec

(***************************************************************************)
(* A chain file that can be read is linked from its genesis block on,      *)
(* whatever has failed before (newBlockWithPrevBlockchain, exeAddBlock).   *)
(***************************************************************************)
THEOREM ChainLinked == Spec => []ChainIsLinked
<1>1. ChainInv => ChainIsLinked
  BY DEF ChainInv
<1> QED  BY <1>1, ChainInvariant, PTL

(***************************************************************************)
(* The state of the chain file has its type: in every run, whatever is cut *)
(* off by a torn write, the file is a sequence of lines.                   *)
(***************************************************************************)
THEOREM ChainTypeCorrect == Spec => []ChainTypeOK
<1>1. ChainInv => ChainTypeOK
  BY DEF ChainInv
<1> QED  BY <1>1, ChainInvariant, PTL

(***************************************************************************)
(* A chain file that can be read has the blocks that exeAddBlock has       *)
(* reported as added, all of them and in their order.                      *)
(***************************************************************************)
THEOREM ChainAdded == Spec => []ChainIsAdded
<1>1. ChainInv => ChainIsAdded
  BY DEF ChainInv
<1> QED  BY <1>1, ChainInvariant, PTL

(***************************************************************************)
(* As long as no write of appendBlockToBlockchain was torn, the file can   *)
(* be read.                                                                *)
(***************************************************************************)
THEOREM UntornReadable == Spec => []UntornIsReadable
<1>1. ChainInv => UntornIsReadable
  BY DEF ChainInv, UntornIsWhole, UntornIsReadable, Parses
<1> QED  BY <1>1, ChainInvariant, PTL

(***************************************************************************)
(* A replica panics on an empty chain, if at all, before it has added its  *)
(* first block.                                                            *)
(***************************************************************************)
THEOREM NoLatePanic == Spec => []PanicsBeforeFirstBlock
<1>1. ChainInv => PanicsBeforeFirstBlock
  BY DEF ChainInv
<1> QED  BY <1>1, ChainInvariant, PTL
=============================================================================
