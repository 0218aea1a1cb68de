---------------------------- MODULE ResultPairs ----------------------------
(***************************************************************************)
(* Which raw files belong together: RawDataProcessor.__init__ of           *)
(* TesterSuit/YcsbModules/ProcRawData.py.                                  *)
(*                                                                         *)
(* Each client has a directory of results; a test is found in it by its    *)
(* ID.  The components of an ID that differ between clients are wildcards; *)
(* two IDs belong together if they agree on the others.  The directories   *)
(* are listed in any order, sorted by the IDs with wildcards, and paired   *)
(* position by position.                                                   *)
(*                                                                         *)
(* An ID is represented by its wildcard form, as a number that sorts like  *)
(* it, and by what the wildcard stands for (the clients' threads are added *)
(* up).  In both, -1 stands for the text '-1'.                             *)
(***************************************************************************)
EXTENDS Integers, SequencesExt, Collections

CONSTANTS
  NumDirs,   \* the directories
  Forms,     \* the IDs with wildcards, in the order of their sorting
  BadForms,  \* those with more or fewer components than the definition of the IDs
  Wild,      \* what a wildcard may stand for
  NoNumbers, \* of these, what int() does not take
  Unlimited, \* 999999999999, as small as TLC's numbers are
  MaxFiles   \* bound: the files of a directory

ASSUME DirsAssumption == NumDirs \in Nat \ {0} /\ MaxFiles \in Nat
ASSUME FormsAssumption ==
  /\ Forms \subseteq Int /\ BadForms \subseteq Int /\ Forms \cap BadForms = {}
  /\ Wild \subseteq Int /\ NoNumbers \subseteq Wild \ {-1} /\ Unlimited \in Nat

VARIABLE dirs  \* each directory as os.listdir lists it

\* The name of a file: an ID, or one that has another number of components.
ID == [form : Forms, wild : Wild] \cup [form : BadForms, wild : {0}]

\* A slip of SortByForm: a test is looked up by its form again, and the first one
\* found is taken.
FirstOfForm(list) ==
  LET order == SortedPlaces([k \in DOMAIN list |-> list[k].form])
      first(form) == CHOOSE j \in DOMAIN list :
                       /\ list[j].form = form
                       /\ \A k \in 1 .. j - 1 : list[k].form # form IN
  [k \in DOMAIN list |-> list[first(list[order[k]].form)]]

\* A list sorted by the IDs with wildcards; list.sort is stable.
SortByForm(list) ==
  LET order == SortedPlaces([k \in DOMAIN list |-> list[k].form]) IN
  [k \in DOMAIN list |-> list[order[k]]]

\* A slip of IdPairs: the lists are paired as they were listed.
UnsortedPairs(listing) ==
  [k \in DOMAIN listing[1] |-> [d \in DOMAIN listing |-> listing[d][k]]]

\* The ID of every directory at each position of the sorted lists.
IdPairs(listing) ==
  [k \in DOMAIN listing[1] |-> [d \in DOMAIN listing |-> SortByForm(listing[d])[k]]]

\* A slip of Unmatched: the form of each pair's first two IDs is not compared.
SameLengthOnly(listing) ==
  \/ listing[1] = <<>>
  \/ \E d \in DOMAIN listing : Len(listing[d]) # Len(listing[1])

\* GenIdWithWildcard raises for a name that is not an ID, in any of the directories.
WrongLength(listing) ==
  \E d \in DOMAIN listing : \E k \in DOMAIN listing[d] : listing[d][k].form \in BadForms

\* No data, lists of different lengths, or a pair that does not match: raises.
Unmatched(listing) ==
  \/ listing[1] = <<>>
  \/ \E d \in DOMAIN listing : Len(listing[d]) # Len(listing[1])
  \/ \E pair \in {IdPairs(listing)[k] : k \in DOMAIN listing[1]} :
       \E d \in DOMAIN listing : pair[d].form # pair[1].form

\* The pairs are made, or RawDataProcessor.__init__ has raised.
Raises(listing) == WrongLength(listing) \/ Unmatched(listing)

\* GetIdResult writes 999999999999 where an ID has '-1'.
Replaced(text) == IF text = -1 THEN Unlimited ELSE text

\* GetIdResult of FinalProcRawData: the components that the IDs share, and the sum of
\* those that differ; it raises, in the pair's thread, if one of these is no number.
GetIdResult(pair) ==
  IF \E d \in DOMAIN pair : pair[d].wild \in NoNumbers THEN [ok |-> FALSE]
  ELSE [ok |-> TRUE, form |-> Replaced(pair[1].form),
        sum |-> Total([d \in DOMAIN pair |-> Replaced(pair[d].wild)])]

----------------------------------------------------------------------------
PairsInit == dirs = [d \in 1 .. NumDirs |-> <<>>]

\* A result is written to a directory; its ID is the name of the file.
WriteResult ==
  \E d \in DOMAIN dirs : \E id \in ID \ ToSet(dirs[d]) :
    /\ Len(dirs[d]) < MaxFiles
    /\ \E k \in 1 .. Len(dirs[d]) + 1 : dirs' = [dirs EXCEPT ![d] = InsertAt(@, k, id)]

PairsNext == WriteResult

PairsSpec == PairsInit /\ [][PairsNext]_dirs

----------------------------------------------------------------------------
CountOf(list, form) == Cardinality({k \in DOMAIN list : list[k].form = form})

\* Pairing succeeds exactly if every name is an ID and every directory holds the same
\* tests, as many times: a missing, a surplus or a foreign file anywhere is noticed.
MatchedIsRight ==
  ~Raises(dirs) <=>
    /\ dirs[1] # <<>>
    /\ \A d \in DOMAIN dirs : \A form \in BadForms : CountOf(dirs[d], form) = 0
    /\ \A d \in DOMAIN dirs : \A form \in Forms : CountOf(dirs[d], form) = CountOf(dirs[1], form)

\* The files of the test, or tests, that a row names so, and what they stand for.
IsOf(id, row) == Replaced(id.form) = row
AllNumbers(list, row) ==
  \A k \in DOMAIN list : IsOf(list[k], row) => list[k].wild \notin NoNumbers
WildOf(list, row) ==
  Total([k \in DOMAIN list |-> IF IsOf(list[k], row) THEN Replaced(list[k].wild) ELSE 0])

\* Every file is in one pair, at its directory's place, and no file in two.  If the
\* files of a test all stand for numbers, the sums in its rows are theirs; otherwise a
\* pair of it raises, and the rows of other tests are right all the same.
EachInOnePair ==
  ~Raises(dirs) =>
    /\ \A d \in DOMAIN dirs : \A k \in DOMAIN dirs[d] :
         Cardinality({j \in DOMAIN IdPairs(dirs) : IdPairs(dirs)[j][d] = dirs[d][k]}) = 1
    /\ LET rows == [k \in DOMAIN IdPairs(dirs) |-> GetIdResult(IdPairs(dirs)[k])] IN
       \A row \in {Replaced(form) : form \in Forms} :
         IF \A d \in DOMAIN dirs : AllNumbers(dirs[d], row)
           THEN Total([k \in DOMAIN rows |->
                         IF rows[k].ok /\ rows[k].form = row THEN rows[k].sum ELSE 0])
                  = Total([d \in DOMAIN dirs |-> WildOf(dirs[d], row)])
           ELSE \E k \in DOMAIN rows : ~rows[k].ok /\ IsOf(IdPairs(dirs)[k][1], row)

\* While no directory has two files of one test, the pairs are those that belong
\* together, and the order in which directories are listed makes no difference.
OrderIsIrrelevant ==
  (\A d \in DOMAIN dirs : IsInjective([k \in DOMAIN dirs[d] |-> dirs[d][k].form])) =>
    LET reversed == [d \in DOMAIN dirs |-> Reverse(dirs[d])] IN
      /\ Raises(dirs) <=> Raises(reversed)
      /\ ~Raises(dirs) => IdPairs(dirs) = IdPairs(reversed)
=============================================================================
