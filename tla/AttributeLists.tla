--------------------------- MODULE AttributeLists ---------------------------
(***************************************************************************)
(* The lists of attributes and of enclaves, AbAttributeList and EntityList:*)
(* each wraps a std::set, which keeps its items in the order that          *)
(* ItemBase::operator< says they have, and takes two items for the same    *)
(* when neither is less.  A list is the sequence of its items; a program   *)
(* holds several and works on them with the operations of the classes.     *)
(***************************************************************************)
EXTENDS AccessPolicy

CONSTANTS
  AttributeLists,  \* the names of the lists of a program
  EntityLists,
  AttributeItems, EntityItems,  \* the items it puts into them
  MaxParsed        \* bound: the items in a buffer it parses

\* A list is of one class, and of items of that class.
ASSUME ListsAssumption ==
  /\ AttributeLists \cap EntityLists = {}
  /\ AttributeItems \subseteq [1 .. AttributeItemSize -> Byte] /\ EntityItems \subseteq Hash
  /\ MaxParsed \in Nat

VARIABLE lists

----------------------------------------------------------------------------
(* The standard library: an ordered set, and algorithms on two of them *)

\* The first place whose item is not less, or the end.
LowerBound(list, item) ==
  CHOOSE k \in 1 .. Len(list) + 1 :
    /\ \A n \in 1 .. k - 1 : Less(list[n], item)
    /\ k <= Len(list) => ~Less(list[k], item)

\* An item is found there if it is not greater either.
Found(list, item) ==
  LET k == LowerBound(list, item) IN k <= Len(list) /\ ~Less(item, list[k])

Insertion(list, item) ==
  IF Found(list, item) THEN list ELSE InsertAt(list, LowerBound(list, item), item)

\* A set made of items one by one.
SetOf(items) ==
  LET first[n \in 0 .. Len(items)] ==
        IF n = 0 THEN <<>> ELSE Insertion(first[n - 1], items[n])
  IN first[Len(items)]

\* std::set_union and std::set_difference walk through both at once: what they write
\* from a place in each on.
Places(a, b) == (1 .. Len(a) + 1) \X (1 .. Len(b) + 1)

SetUnion(a, b) ==
  LET from[at \in Places(a, b)] ==
        LET m == at[1]
            n == at[2] IN
        IF m > Len(a) THEN SubSeq(b, n, Len(b))
        ELSE IF n > Len(b) THEN SubSeq(a, m, Len(a))
        ELSE IF Less(a[m], b[n]) THEN <<a[m]>> \o from[<<m + 1, n>>]
        ELSE IF Less(b[n], a[m]) THEN <<b[n]>> \o from[<<m, n + 1>>]
        ELSE <<a[m]>> \o from[<<m + 1, n + 1>>]
  IN from[<<1, 1>>]

SetDifference(a, b) ==
  LET from[at \in Places(a, b)] ==
        LET m == at[1]
            n == at[2] IN
        IF m > Len(a) \/ n > Len(b) THEN SubSeq(a, m, Len(a))
        ELSE IF Less(a[m], b[n]) THEN <<a[m]>> \o from[<<m + 1, n>>]
        ELSE IF Less(b[n], a[m]) THEN from[<<m, n + 1>>]
        ELSE from[<<m + 1, n + 1>>]
  IN from[<<1, 1>>]

----------------------------------------------------------------------------
(* The classes *)

Merge2New(a, b) == SetOf(SetUnion(a, b))

\* A slip of Difference2New: the other way round.
DifferenceReversed(a, b) == SetOf(SetDifference(b, a))
Difference2New(a, b) == SetOf(SetDifference(a, b))

ItemSize(l) == IF l \in AttributeLists THEN AttributeItemSize ELSE HashSize

\* A slip of SearchList: the first item that is not less will do.
SearchNotLess(list, item) == LowerBound(list, item) <= Len(list)
SearchList(list, item) == Found(list, item)

SizeOfList(l) == Len(lists[l]) * ItemSize(l)
BytesOfList(l) == FlattenSeq(lists[l])

\* A slip of ParseItems: its remainder is left.
ParseWhatFits(bytes, size) ==
  Parsed(SetOf([n \in 1 .. Len(bytes) \div size |->
                            SubSeq(bytes, size * (n - 1) + 1, size * n)]), <<>>)

\* Items are taken to the end of a buffer, which must hold nothing else.
ParseItems(bytes, size) ==
  IF Len(bytes) % size # 0 THEN ParseError
  ELSE Parsed(SetOf([n \in 1 .. Len(bytes) \div size |->
                                 SubSeq(bytes, size * (n - 1) + 1, size * n)]), <<>>)

----------------------------------------------------------------------------
(* A program with some lists.  In a method the other list may be the same one. *)

ListNames == AttributeLists \cup EntityLists
ItemsOf(l) == IF l \in AttributeLists THEN AttributeItems ELSE EntityItems
SameClass(l, r) == {l, r} \subseteq AttributeLists \/ {l, r} \subseteq EntityLists

ListsInit == lists = [l \in ListNames |-> <<>>]

Set(l, list) == lists' = [lists EXCEPT ![l] = list]

Insert(l, item) == Set(l, Insertion(lists[l], item))

Merge(l, r) == Set(l, Merge2New(lists[l], lists[r]))
Difference(l, r) == Set(l, Difference2New(lists[l], lists[r]))

\* The operators + and - : the result is moved into a list of its own.
Plus(l, a, b) == Set(l, Merge2New(lists[a], lists[b]))
Minus(l, a, b) == Set(l, Difference2New(lists[a], lists[b]))

Swap(l, r) == lists' = [lists EXCEPT ![l] = lists[r], ![r] = lists[l]]

\* A list made of another one that is moved from, which is left empty.
MoveFrom(l, r) == l # r /\ lists' = [lists EXCEPT ![l] = lists[r], ![r] = <<>>]

\* A list made of a buffer, with items in any order and more than once.
Buffers(l) == {FlattenSeq(b) : b \in UNION {[1 .. n -> ItemsOf(l)] : n \in 0 .. MaxParsed}}

ParseList(l, bytes) ==
  LET result == ParseItems(bytes, ItemSize(l)) IN result.ok /\ Set(l, result.value)

ListsNext ==
  \/ \E l \in ListNames :
       \/ \E item \in ItemsOf(l) : Insert(l, item)
       \/ \E r \in ListNames : SameClass(l, r) /\ Merge(l, r)
       \/ \E bytes \in Buffers(l) : ParseList(l, bytes)
  \/ \E l, r \in AttributeLists :
       \/ Difference(l, r)
       \/ Swap(l, r)
       \/ MoveFrom(l, r)
       \/ \E s \in AttributeLists : Plus(l, r, s) \/ Minus(l, r, s)

ListsSpec == ListsInit /\ [][ListsNext]_lists

----------------------------------------------------------------------------
Contents(l) == ToSet(lists[l])

\* Search finds what is in a list, and nothing else: it decides every attribute of a
\* policy by the order of the items, the only thing std::set knows of them.  And in
\* that order no item comes twice or out of place: equal lists are written as equal
\* bytes, and the algorithms on two lists may walk through both.
SearchFinds ==
  \A l \in ListNames :
    /\ \A m, n \in DOMAIN lists[l] : m < n => Less(lists[l][m], lists[l][n])
    /\ \A item \in ItemsOf(l) : SearchList(lists[l], item) <=> item \in Contents(l)

\* What a list is sent as is as long as GetSerializedSize says, and read as that list;
\* two lists one after the other are read as the merged one, and a list with a byte
\* too many or too few is an error.
ListSurvives ==
  \A l \in ListNames :
    /\ SizeOfList(l) = Len(BytesOfList(l))
    /\ \A r \in ListNames : SameClass(l, r) =>
         ParseItems(BytesOfList(l) \o BytesOfList(r), ItemSize(l))
           = Parsed(Merge2New(lists[l], lists[r]), <<>>)
    /\ ~ParseItems(BytesOfList(l) \o <<0>>, ItemSize(l)).ok
    /\ lists[l] # <<>> => ~ParseItems(Tail(BytesOfList(l)), ItemSize(l)).ok

\* The operations are those on sets, also when a list meets itself, and leave the
\* other lists alone.
ListsAreSets ==
  [][/\ \A l, r \in ListNames : SameClass(l, r) /\ Merge(l, r) =>
          Contents(l)' = Contents(l) \cup Contents(r)
     /\ \A l, r, s \in AttributeLists :
          /\ Difference(l, r) => Contents(l)' = Contents(l) \ Contents(r)
          /\ Minus(l, r, s) => Contents(l)' = Contents(r) \ Contents(s)
          /\ Plus(l, r, s) => Contents(l)' = Contents(r) \cup Contents(s)]_lists
=============================================================================
