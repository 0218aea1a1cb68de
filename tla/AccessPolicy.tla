---------------------------- MODULE AccessPolicy ----------------------------
(***************************************************************************)
(* The access policies of the DHT, sources/Common_Enclave/DhtClient/       *)
(* AccessCtrl: attribute-based policies (expressions over attributes),     *)
(* entity-based ones (lists of enclaves), and the FullPolicy that is sent  *)
(* with every inserted value.                                              *)
(*                                                                         *)
(* A program builds the expressions with the constructors and with the     *)
(* operators &, | and ~, bottom up; the actions below do the same on a     *)
(* stack.  Serialising, parsing and examining a policy are pure, and are   *)
(* operators.  A byte is a number, a hash HashSize of them; parsing works  *)
(* on what is left of the buffer.                                          *)
(***************************************************************************)
EXTENDS Integers, Sequences, FiniteSets, SequencesExt, Collections

CONSTANTS
  HashSize,      \* the bytes of a hash, 32 in the code
  SizeWidth,     \* the bytes of a serialised length, 8 in the code
  UserHashes, AttrHashes, EntityHashes,  \* the hashes a test uses
  Controls,      \* the enclave policies a program uses, besides that of the benchmark
  TestHashes,    \* the enclaves, besides its own, in the benchmark's enclave policy
  TestLabels,    \* the attributes in the benchmark's client policy, in order
  MaxDepth,      \* bound: how deep an expression is
  MaxNodes       \* bound: the nodes of all expressions on the stack

Byte == 0 .. 255
Hash == [1 .. HashSize -> Byte]

\* How many values some bytes have.
Values[width \in Nat] == IF width = 0 THEN 1 ELSE 256 * Values[width - 1]

ASSUME SizeAssumption == HashSize \in Nat \ {0, 1} /\ SizeWidth \in Nat \ {0}
ASSUME HashAssumption ==
  /\ UserHashes \cup AttrHashes \cup EntityHashes \cup TestHashes \subseteq Hash
  /\ TestLabels \in Seq(Hash)
\* The benchmark has a label, and its policy is one of those that are looked at.
ASSUME DepthAssumption ==
  MaxDepth \in Nat \ {0} /\ TestLabels # <<>> /\ Len(TestLabels) <= MaxDepth + 1

VARIABLES
  stack,    \* the attribute-based policies built so far
  owner, enclavePolicy  \* of the FullPolicy being built

vars == <<stack, owner, enclavePolicy>>

\* sk_flag of the classes: 'A', 'V', '&', '|' and '~'.
AnyFlag == 65
AttributeFlag == 86
AndFlag == 38
OrFlag == 124
NotFlag == 126
Flags == {AnyFlag, AttributeFlag, AndFlag, OrFlag, NotFlag}

----------------------------------------------------------------------------
(* Parsing: a constructor takes bytes from the front of the buffer *)

ParseError == [ok |-> FALSE, beyond |-> FALSE]
\* Memory beyond the buffer is read: what comes of that is undefined.
Overrun == [ok |-> FALSE, beyond |-> TRUE]
Parsed(value, rest) == [ok |-> TRUE, value |-> value, rest |-> rest]
Then(result, Continue(_, _)) ==
  IF result.ok THEN Continue(result.value, result.rest) ELSE result

\* A slip of Take: the length is not checked.
TakeWhatIsLeft(bytes, n) ==
  LET m == IF Len(bytes) < n THEN Len(bytes) ELSE n IN
    Parsed(SubSeq(bytes, 1, m), SubSeq(bytes, m + 1, Len(bytes)))

\* The next n bytes, as they are.
Take(bytes, n) ==
  IF Len(bytes) < n THEN ParseError
                    ELSE Parsed(SubSeq(bytes, 1, n), SubSeq(bytes, n + 1, Len(bytes)))

----------------------------------------------------------------------------
(* ItemBase, AbAttributeItem, EntityItem and the lists of them: an item is *)
(* the bytes of its hashes, a list is a set that is written in order.      *)

AttributeItemSize == 2 * HashSize
AttributeItem(user, attr) == user \o attr
ParseAttributeItem(bytes) == Take(bytes, AttributeItemSize)
ParseEntityItem(bytes) == Take(bytes, HashSize)

\* ItemBase::operator<
Less(a, b) ==
  \E n \in DOMAIN a : a[n] < b[n] /\ \A m \in 1 .. n - 1 : a[m] = b[m]

SerializeList(list) ==
  FlattenSeq(SortedBy(list, {pair \in list \X list : Less(pair[1], pair[2])}))

\* EntityList: a buffer of exactly the items is taken.
ParseEntityList(bytes) ==
  IF Len(bytes) % HashSize # 0
    THEN ParseError
    ELSE Parsed({SubSeq(bytes, HashSize * (n - 1) + 1, HashSize * n) :
                   n \in 1 .. Len(bytes) \div HashSize}, <<>>)

----------------------------------------------------------------------------
(* AbPolicyBase and its classes *)

AbPolicyAny == [flag |-> AnyFlag]
AbPolicyAttribute(item) == [flag |-> AttributeFlag, attr |-> item]
AbPolicyBinaryOp(flag, left, right) == [flag |-> flag, left |-> left, right |-> right]
AbPolicyNot(var) == [flag |-> NotFlag, var |-> var]
DenyAll == AbPolicyNot(AbPolicyAny)

\* The expressions that can be made of some others, and those of at most some depth.
Expressions(operands) ==
       [flag : {AnyFlag}]
  \cup [flag : {AttributeFlag}, attr : [1 .. AttributeItemSize -> Byte]]
  \cup [flag : {AndFlag, OrFlag}, left : operands, right : operands]
  \cup [flag : {NotFlag}, var : operands]

PoliciesOf[depth \in Nat] ==
  Expressions(IF depth = 0 THEN {} ELSE PoliciesOf[depth - 1])

Policies == PoliciesOf[MaxDepth]

\* A method is called on the class of its object, which the flag tells.
ByClass(flag, any, attribute, binary, not) ==
  CASE flag = AnyFlag -> any
    [] flag = AttributeFlag -> attribute
    [] flag \in {AndFlag, OrFlag} -> binary
    [] flag = NotFlag -> not

\* What the methods of the operators make of what those of the operands return.
ExamineAnd(left, right) == left /\ right
ExamineOr(left, right) == left \/ right
SizeOfBinaryOp(left, right) == 1 + left + right
SerializeBinaryOp(flag, left, right) == <<flag>> \o left \o right
RelatedToBinaryOp(left, right) == left \cup right

\* A slip of SizeOfUnaryOp: the flag is not counted.
SizeOfOperand(var) == var
SizeOfUnaryOp(var) == 1 + var
SerializeUnaryOp(flag, var) == <<flag>> \o var

Examine(p, attrs) ==
  LET permits[q \in Policies] ==
        ByClass(q.flag, TRUE, q.attr \in attrs,
                IF q.flag = AndFlag THEN ExamineAnd(permits[q.left], permits[q.right])
                                    ELSE ExamineOr(permits[q.left], permits[q.right]),
                ~permits[q.var])
  IN permits[p]

SerializedSize[p \in Policies] ==
  ByClass(p.flag, 1, 1 + AttributeItemSize,
          SizeOfBinaryOp(SerializedSize[p.left], SerializedSize[p.right]),
          SizeOfUnaryOp(SerializedSize[p.var]))

Serialize[p \in Policies] ==
  ByClass(p.flag, <<AnyFlag>>, <<AttributeFlag>> \o p.attr,
          SerializeBinaryOp(p.flag, Serialize[p.left], Serialize[p.right]),
          SerializeUnaryOp(p.flag, Serialize[p.var]))

RelatedAttributes[p \in Policies] ==
  ByClass(p.flag, {}, {p.attr},
          RelatedToBinaryOp(RelatedAttributes[p.left], RelatedAttributes[p.right]),
          RelatedAttributes[p.var])

ParseAny(bytes) == Parsed(AbPolicyAny, Tail(bytes))
ParseAttribute(bytes) ==
  Then(ParseAttributeItem(Tail(bytes)), LAMBDA item, rest : Parsed(AbPolicyAttribute(item), rest))

\* AccessCtrl::Parse: the first byte tells the class, operands follow in order.
Parse[bytes \in Seq(Byte)] ==
  IF bytes = <<>> \/ bytes[1] \notin Flags THEN ParseError ELSE
  ByClass(bytes[1], ParseAny(bytes), ParseAttribute(bytes),
          Then(Parse[Tail(bytes)], LAMBDA left, rest1 :
          Then(Parse[rest1], LAMBDA right, rest2 :
            Parsed(AbPolicyBinaryOp(bytes[1], left, right), rest2))),
          Then(Parse[Tail(bytes)], LAMBDA var, rest : Parsed(AbPolicyNot(var), rest)))

----------------------------------------------------------------------------
(* EntityBasedControl: a list of enclaves, or no list for "allow all" *)

AllowAllEntities == [allowAll |-> TRUE]
AllowList(entities) == [allowAll |-> FALSE, list |-> entities]

\* A length is written with its lowest byte first.
WriteSize(n) == [k \in 1 .. SizeWidth |-> (n \div Values[k - 1]) % 256]

ReadSize(bytes) ==
  LET upTo[k \in 0 .. SizeWidth] ==
        IF k = 0 THEN 0 ELSE upTo[k - 1] + bytes[k] * Values[k - 1]
  IN upTo[SizeWidth]

ParseSize(bytes) ==
  Then(Take(bytes, SizeWidth), LAMBDA size, rest : Parsed(ReadSize(size), rest))

\* A slip of SerializeEntityPolicy: the length counts the items.
SerializeItemCount(p) ==
  IF p.allowAll
    THEN <<1>>
    ELSE <<0>> \o WriteSize(Cardinality(p.list)) \o SerializeList(p.list)

SerializeEntityPolicy(p) ==
  IF p.allowAll
    THEN <<1>>
    ELSE <<0>> \o WriteSize(HashSize * Cardinality(p.list)) \o SerializeList(p.list)

\* The list ends where its length says.  Nobody compares that with the end of the
\* buffer: a length that is a number of items is read to its end.
ItemsOfLength(bytes, size) ==
  IF size <= Len(bytes) THEN Take(bytes, size)
  ELSE IF size % HashSize # 0 THEN ParseError ELSE Overrun

\* The length is read before the list's constructor moves on: it is an argument of the
\* iterator's operator +, and the iterator itself is passed by reference.
ParseEntityPolicy(bytes) ==
  Then(Take(bytes, 1), LAMBDA flag, rest :
    IF flag # <<0>> THEN Parsed(AllowAllEntities, rest) ELSE
    Then(ParseSize(rest), LAMBDA size, rest1 :
    Then(ItemsOfLength(rest1, size), LAMBDA items, rest2 :
    Then(ParseEntityList(items), LAMBDA list, none :
      Parsed(AllowList(list), rest2)))))

SizeOfEntityPolicy(p) ==
  IF p.allowAll THEN 1 ELSE 1 + SizeWidth + HashSize * Cardinality(p.list)

----------------------------------------------------------------------------
(* The three policies of a control, for read, write and execute *)

Control(r, w, x) == [r |-> r, w |-> w, x |-> x]

\* Both kinds of control are parsed one policy after the other.
ParseThree(bytes, ParseOne(_)) ==
  Then(ParseOne(bytes), LAMBDA r, rest1 :
  Then(ParseOne(rest1), LAMBDA w, rest2 :
  Then(ParseOne(rest2), LAMBDA x, rest3 : Parsed(Control(r, w, x), rest3))))

ParseEntityBasedControl(bytes) == ParseThree(bytes, ParseEntityPolicy)
SerializeEntityBasedControl(c) ==
  SerializeEntityPolicy(c.r) \o SerializeEntityPolicy(c.w) \o SerializeEntityPolicy(c.x)
SizeOfEntityBasedControl(c) ==
  SizeOfEntityPolicy(c.r) + SizeOfEntityPolicy(c.w) + SizeOfEntityPolicy(c.x)

ParseAttributeBasedControl(bytes) == ParseThree(bytes, LAMBDA rest : Parse[rest])
SerializeAttributeBasedControl(c) == Serialize[c.r] \o Serialize[c.w] \o Serialize[c.x]
SizeOfAttributeBasedControl(c) ==
  SerializedSize[c.r] + SerializedSize[c.w] + SerializedSize[c.x]

FullPolicy(entity, enclave, client) ==
  [owner |-> entity, enclavePolicy |-> enclave, clientPolicy |-> client]

SerializeFullPolicy(p) ==
  p.owner \o SerializeEntityBasedControl(p.enclavePolicy)
          \o SerializeAttributeBasedControl(p.clientPolicy)

SizeOfFullPolicy(p) ==
  HashSize + SizeOfEntityBasedControl(p.enclavePolicy)
           + SizeOfAttributeBasedControl(p.clientPolicy)

ParseFullPolicy(bytes) ==
  Then(ParseEntityItem(bytes), LAMBDA entity, rest1 :
  Then(ParseEntityBasedControl(rest1), LAMBDA enclave, rest2 :
  Then(ParseAttributeBasedControl(rest2), LAMBDA client, rest3 :
    Parsed(FullPolicy(entity, enclave, client), rest3))))

\* What a control permits is asked for one kind of access, "r", "w" or "x".
ExamineControl(c, kind, attrs) == Examine(c[kind], attrs)

\* A slip of RelatedToControl: reading's attributes, whatever is asked for.
RelatedToReading(c, kind) == RelatedAttributes[c.r]
RelatedToControl(c, kind) == RelatedAttributes[c[kind]]

----------------------------------------------------------------------------
(* Building a policy *)

EntityPolicies ==
       [allowAll : {TRUE}]
  \cup [allowAll : {FALSE},
        list : {list \in SUBSET Hash : IsFiniteSet(list) /\ HashSize * Cardinality(list) < Values[SizeWidth]}]

\* An enclave policy has lists in memory: their lengths are numbers of the code.
ASSUME ControlsAssumption ==
  /\ Controls \subseteq [r : EntityPolicies, w : EntityPolicies, x : EntityPolicies]
  /\ IsFiniteSet(TestHashes) /\ HashSize * (Cardinality(TestHashes) + 1) < Values[SizeWidth]

\* With ENCLAVE_ACCESS_CONTROL_ON the benchmark's enclave lets itself in, and others.
TestEnclavePolicy(self) ==
  LET list == AllowList({self} \cup TestHashes) IN Control(list, list, AllowAllEntities)

\* With USER_ACCESS_CONTROL_ON a user that has every label may read and write.
TestClientPolicy(user) ==
  LET labelled(n) == AbPolicyAttribute(AttributeItem(user, TestLabels[n]))
      first[n \in 1 .. Len(TestLabels)] ==
        IF n = 1 THEN labelled(1) ELSE AbPolicyBinaryOp(AndFlag, first[n - 1], labelled(n))
      all == first[Len(TestLabels)]
  IN <<all, all, DenyAll>>

Nodes[p \in Policies] ==
  ByClass(p.flag, 1, 1, 1 + Nodes[p.left] + Nodes[p.right], 1 + Nodes[p.var])

RoomFor(n) == FoldLeft(LAMBDA sum, p : sum + Nodes[p], n, stack) <= MaxNodes

Init ==
  /\ stack \in {<<>>} \cup {TestClientPolicy(user) : user \in UserHashes}
  /\ owner \in EntityHashes
  /\ enclavePolicy \in Controls \cup {TestEnclavePolicy(owner)}

PushPolicy(p) ==
  /\ RoomFor(Nodes[p])
  /\ stack' = Append(stack, p)
  /\ UNCHANGED <<owner, enclavePolicy>>

PushAny == PushPolicy(AbPolicyAny)
PushDenyAll == PushPolicy(DenyAll)
PushAttribute ==
  \E user \in UserHashes, attr \in AttrHashes :
    PushPolicy(AbPolicyAttribute(AttributeItem(user, attr)))

\* operator& and operator| take both operands over.
Combine(flag) ==
  /\ Len(stack) >= 2 /\ RoomFor(1)
  /\ LET n == Len(stack)
         both == AbPolicyBinaryOp(flag, stack[n - 1], stack[n]) IN
       /\ both \in Policies
       /\ stack' = Append(SubSeq(stack, 1, n - 2), both)
  /\ UNCHANGED <<owner, enclavePolicy>>

\* operator~
Negate ==
  /\ stack # <<>> /\ RoomFor(1)
  /\ LET not == AbPolicyNot(Last(stack)) IN
       /\ not \in Policies
       /\ stack' = Append(Front(stack), not)
  /\ UNCHANGED <<owner, enclavePolicy>>

\* An expression nobody took over is destroyed.
Drop ==
  /\ stack # <<>>
  /\ stack' = Front(stack)
  /\ UNCHANGED <<owner, enclavePolicy>>

Next ==
  \/ PushAny
  \/ PushDenyAll
  \/ PushAttribute
  \/ Combine(AndFlag)
  \/ Combine(OrFlag)
  \/ Negate
  \/ Drop

Spec == Init /\ [][Next]_vars

----------------------------------------------------------------------------
\* The policy a program makes of the three expressions on top of the stack.
Complete == Len(stack) >= 3
Policy == LET n == Len(stack) IN
  FullPolicy(owner, enclavePolicy, Control(stack[n - 2], stack[n - 1], stack[n]))

Attributes == {AttributeItem(user, attr) :
                 user \in UserHashes, attr \in AttrHashes \cup ToSet(TestLabels)}

\* The buffer AppInsertData reserves for a policy with GetSerializedSize is the
\* one Serialize fills, to the last byte: EntityList and the items write without
\* looking at its end.
SizeIsExact == Complete => SizeOfFullPolicy(Policy) = Len(SerializeFullPolicy(Policy))

\* A node that parses what a client serialised gets the client's policy, and
\* stops where it ends whatever follows: no class and no list reads a byte too
\* few or too many, though the hashes may contain the bytes of flags.
PolicySurvives ==
  Complete => \A trailer \in {<<>>, <<AnyFlag>>, <<NotFlag, 0>>} :
    ParseFullPolicy(SerializeFullPolicy(Policy) \o trailer) = Parsed(Policy, trailer)

\* After m bytes the items of an enclave policy's list, or of a list of the three of
\* a control, have begun and not ended.
CutInItems(p, m) == ~p.allowAll /\ m \in 1 + SizeWidth .. SizeOfEntityPolicy(p) - 1
CutInLists(c, m) ==
  \/ CutInItems(c.r, m)
  \/ CutInItems(c.w, m - SizeOfEntityPolicy(c.r))
  \/ CutInItems(c.x, m - SizeOfEntityPolicy(c.r) - SizeOfEntityPolicy(c.w))

\* What was cut short, an expression or a whole policy, is never taken for a shorter
\* one: it is an error, but for a policy that is cut inside the items of a list, where
\* EntityBasedControl's ParsePolicy reads beyond the buffer, and only there.
CutShortIsAnError ==
  /\ \A n \in DOMAIN stack : LET bytes == Serialize[stack[n]] IN
       \A m \in 0 .. Len(bytes) - 1 : Parse[SubSeq(bytes, 1, m)] = ParseError
  /\ Complete => LET bytes == SerializeFullPolicy(Policy) IN
       \A m \in 0 .. Len(bytes) - 1 :
         ParseFullPolicy(SubSeq(bytes, 1, m)) =
           IF CutInLists(Policy.enclavePolicy, m - HashSize) THEN Overrun ELSE ParseError

\* A node need only look up the attributes that a policy, or a control for the kind
\* of access that is asked for, names as related: no other one changes the outcome.
RelatedSuffice ==
  \A attrs \in SUBSET Attributes :
    /\ \A n \in DOMAIN stack :
         Examine(stack[n], attrs) = Examine(stack[n], attrs \cap RelatedAttributes[stack[n]])
    /\ Complete => \A kind \in {"r", "w", "x"} : LET c == Policy.clientPolicy IN
         ExamineControl(c, kind, attrs) = ExamineControl(c, kind, attrs \cap RelatedToControl(c, kind))
=============================================================================
