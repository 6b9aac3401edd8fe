---------------------------- MODULE RowSections ----------------------------
(***************************************************************************)
(* Row-range partitioning of a sparse ("selected rows") variable into      *)
(* splits.  The C++ helpers ToAbsoluteSection and GetSectionIndex live in  *)
(* operators/distributed (headers outside this slice); they are modelled   *)
(* from the spec, section 4.3: split index of id = the unique k with       *)
(* boundary[k] <= id < boundary[k+1], the last split open to the right.    *)
(* Splits are numbered 1..Len(sections) here (0-based in the C++).         *)
(***************************************************************************)
EXTENDS Integers, Sequences, FiniteSets, Functions

\* ToAbsoluteSection: heights <<h1, h2, ...>> to start rows <<0, h1, h1+h2, ...>>.
RECURSIVE ToAbsoluteSection(_)
ToAbsoluteSection(heights) ==
  IF heights = <<>> THEN <<>>
  ELSE LET prev == ToAbsoluteSection(SubSeq(heights, 1, Len(heights) - 1))
       IN  Append(prev, IF prev = <<>> THEN 0
                        ELSE prev[Len(prev)] + heights[Len(heights) - 1])

\* GetSectionIndex: the first boundary strictly above id closes the split
\* that holds id; an id past every boundary falls into the last split.
GetSectionIndex(id, abs) ==
  LET above == {i \in 2..Len(abs) : id < abs[i]}
  IN  IF above = {} THEN Len(abs)
      ELSE (CHOOSE i \in above : \A j \in above : i =< j) - 1

\* The row offset of an absolute id inside split k (send_rows in
\* SendUpdateSparseVars) and its inverse (new_rows in RecvUpdateSparseVars).
LocalRow(id, abs, k) == id - abs[k]
AbsoluteRow(row, abs, k) == row + abs[k]

\* Reference definitions, stated from the spec's own words.
SectionHeight(heights) == SumFunction(heights)

SplitOf(id, heights) ==
  CHOOSE k \in 1..Len(heights) :
    /\ SumFunctionOnSet(heights, 1..(k - 1)) =< id
    /\ id < SumFunctionOnSet(heights, 1..k)
=============================================================================
