--------------------------- MODULE MCAccessPolicy ---------------------------
(* Small instances of AccessPolicy and AttributeLists for TLC.  The hashes are
   made of bytes that are flags elsewhere, so that an offset that is wrong by one
   shows.  The two share no state, and are explored side by side. *)
EXTENDS AttributeLists

Users == {<<AnyFlag, NotFlag>>}
Labels == {<<AndFlag, AnyFlag>>, <<AnyFlag, AnyFlag>>}
Enclaves == {<<0, AnyFlag>>, <<1, 0>>}
OtherEnclaves == {<<1, 0>>, <<2, 0>>}
BenchmarkLabels == <<<<AndFlag, AnyFlag>>, <<AnyFlag, AnyFlag>>, <<NotFlag, 0>>, <<0, 1>>, <<0, OrFlag>>>>

\* AllowAll, DenyAll and lists of one and of two enclaves.
EnclavePolicies ==
  {Control(AllowAllEntities, AllowAllEntities, AllowAllEntities),
   Control(AllowList({}), AllowList({}), AllowList({})),
   Control(AllowList(Enclaves), AllowList({<<1, 0>>}), AllowAllEntities)}

\* Items that agree in some bytes and are less in one and greater in another.
ListedAttributes == {<<0, 1, 0, 2>>, <<0, 1, 1, 1>>, <<1, 0, 0, 2>>}
ListedEnclaves == {<<0, 1>>, <<1, 0>>}

PolicyStep == Next /\ (\A l \in ListNames : lists[l] = <<>>) /\ UNCHANGED lists

\* Whatever the owner and the enclave policy: one of them stands for all.
NoPolicy == stack = <<>> /\ owner = <<1, 0>> /\ enclavePolicy = TestEnclavePolicy(owner)
ListStep == NoPolicy /\ ListsNext /\ UNCHANGED vars

PoliciesInit == Init /\ ListsInit
PoliciesSpec == PoliciesInit /\ [][PolicyStep \/ ListStep]_<<vars, lists>>
=============================================================================
