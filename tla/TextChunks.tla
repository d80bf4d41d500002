----------------------------- MODULE TextChunks -----------------------------
(***************************************************************************)
(* Cutting a long text into overlapping windows (post-cortex-memory,       *)
(* content_vectorizer/ingestion.rs, chunk_text): one step per window.  Of  *)
(* the text only the places of its white space matter.  Positions count    *)
(* from 0, a window is [from, to).                                         *)
(***************************************************************************)
EXTENDS Naturals, FiniteSets, Sequences, FiniteSetsExt

CONSTANTS MaxChars, ChunkSizes, ChunkOverlaps

\* The configured size is 1000 (max_text_length); a window of one character
\* would never get past a space.
ASSUME TextChunksAssumption ==
    MaxChars \in Nat /\ ChunkSizes \subseteq Nat \ {0, 1} /\ ChunkOverlaps \subseteq Nat

VARIABLES tcText,        \* length, places of white space, size, overlap
          tcStart, tcWindows

chunkVars == <<tcText, tcStart, tcWindows>>

ChunksInit ==
    /\ \E n \in 0..MaxChars : \E spaces \in SUBSET (0..n - 1) :
       \E size \in ChunkSizes, overlap \in ChunkOverlaps :
          tcText = [chars |-> n, spaces |-> spaces, size |-> size, overlap |-> overlap]
    /\ tcStart = 0 /\ tcWindows = <<>>

Monus(a, b) == IF a > b THEN a - b ELSE 0
WholeText == tcText.chars <= tcText.size

\* The window from start ends at the last space of its second half.
WindowEnd(start) ==
    LET far == start + tcText.size
        cuts == {c \in start + tcText.size \div 2 .. far - 1 : c \in tcText.spaces}
    IN  IF far >= tcText.chars THEN tcText.chars
        ELSE IF cuts # {} THEN Max(cuts) ELSE far

\* Mutant: the next window starts after the next word.
NextStart_skips(start, end) ==
    LET spaces == {c \in tcText.spaces : c >= end} IN IF spaces = {} THEN end ELSE Min(spaces)

\* The next window starts at a word within the overlap, else at the end.
NextStart(start, end) ==
    LET from == Max({Monus(end, tcText.overlap), start + 1})
        spaces == {c \in tcText.spaces : from <= c /\ c < end}
    IN  IF spaces = {} THEN end ELSE Min(spaces) + 1

CutWindow ==
    /\ tcWindows = <<>> \/ tcStart < tcText.chars
    /\ LET end == IF WholeText THEN tcText.chars ELSE WindowEnd(tcStart)
       IN  /\ tcWindows' = Append(tcWindows, <<tcStart, end>>)
           /\ tcStart' = IF end >= tcText.chars THEN tcText.chars ELSE NextStart(tcStart, end)
    /\ UNCHANGED tcText

ChunksNext == CutWindow
ChunksSpec == ChunksInit /\ [][ChunksNext]_chunkVars

\* ChunksCover: every character before the next window is in a window or is
\* white space between two, no window is longer than the size, and every
\* window begins and ends after the one before, so the loop ends.
ChunksCover ==
    /\ \A k \in DOMAIN tcWindows :
          /\ tcWindows[k][2] - tcWindows[k][1] <= tcText.size
          /\ k > 1 => tcWindows[k - 1][1] < tcWindows[k][1] /\ tcWindows[k - 1][2] <= tcWindows[k][2]
    /\ tcWindows # <<>> => tcWindows[Len(tcWindows)][1] < tcStart \/ tcText.chars = 0
    /\ \A c \in 0..tcStart - 1 :
          \/ c \in tcText.spaces
          \/ \E k \in DOMAIN tcWindows : tcWindows[k][1] <= c /\ c < tcWindows[k][2]

-----------------------------------------------------------------------------
(* The inductive invariant behind ChunksCover.                             *)

ChunksTypeOK ==
    /\ tcText \in [chars : Nat, spaces : SUBSET Nat, size : Nat \ {0, 1}, overlap : Nat]
    /\ tcStart \in Nat /\ tcStart <= tcText.chars
    /\ tcWindows \in Seq(Nat \X Nat)

\* The loop is where the last window leaves it.
EndOf(start) == IF WholeText THEN tcText.chars ELSE WindowEnd(start)
LastLeads ==
    IF tcWindows = <<>> THEN tcStart = 0
    ELSE LET from == tcWindows[Len(tcWindows)][1]
             to == tcWindows[Len(tcWindows)][2]
         IN  /\ to = EndOf(from) /\ (WholeText \/ from < tcText.chars)
             /\ tcStart = IF to >= tcText.chars THEN tcText.chars ELSE NextStart(from, to)

ChunksInv == ChunksTypeOK /\ LastLeads /\ ChunksCover

=============================================================================
