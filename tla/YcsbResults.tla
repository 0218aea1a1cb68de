---------------------------- MODULE YcsbResults ----------------------------
(***************************************************************************)
(* From the raw files of a benchmark to its row of results:                *)
(* TesterSuit/YcsbModules/PreProcRawData.py and FinalProcRawData.py, as    *)
(* ResultParserThread.ProcessResultSet calls them.                         *)
(*                                                                         *)
(* A raw file is a sequence of lines.  The header of a table names an      *)
(* operation and its records follow; what stands before the first header   *)
(* belongs to no table.  A failed operation has a table of its own.  The   *)
(* state is the content of the raw files, written line by line; every      *)
(* function of the modules is a definition.                                *)
(***************************************************************************)
EXTENDS Integers, SequencesExt, Collections

CONSTANTS
  Ops,         \* the operations, by the label in their table's header
  FailedOps,   \* those whose lines contain "fail"
  Timestamps,  \* in the unit of the parameters warnupT and terminateT
  Latency,     \* of a record of an operation at a time
  Percentile,  \* the parameter latPercentile, as a part of Whole: 99.9 is 999 of 1000
  Whole,
  RoundedUp,   \* for how many records the float that gives the rank is above a whole one
  SvrStat,     \* the samples of the server's recorder, in the file of the master
  NumFiles,    \* one raw file for each client
  WarmupT, TerminateT,
  MaxLines     \* bound: the lines of all files together

ASSUME TimeAssumption ==
  Timestamps \subseteq Int /\ WarmupT \in Nat /\ TerminateT \in Nat
ASSUME FilesAssumption == NumFiles \in Nat \ {0} /\ MaxLines \in Nat
ASSUME LatencyAssumption ==
  /\ Latency \in [Ops -> [Timestamps -> Nat]]
  /\ Whole \in Nat /\ Percentile \in 1 .. Whole - 1 /\ RoundedUp \subseteq Nat \ {1}
ASSUME SvrStatAssumption ==
  SvrStat \in Seq([ts : Int, overall : Nat, node : Nat, sys : Nat, procs : Seq(Nat)])

VARIABLES
  files,           \* the raw files
  isFailAllowed    \* the parameter isFailOpsAllowed

vars == <<files, isFailAllowed>>

Header(op) == [kind |-> "header", op |-> op]
Record(op, ts) == [kind |-> "record", op |-> op, ts |-> ts, lat |-> Latency[op][ts]]
Preamble == [kind |-> "preamble"]
IsRecord(line) == line.kind = "record"
ContainsFail(line) == line.kind # "preamble" /\ line.op \in FailedOps

\* A function returns a value or raises.
Done(val) == [ok |-> TRUE, val |-> val]
Error == [ok |-> FALSE]
NoLabel == "no label"
ASSUME OpsAssumption == FailedOps \subseteq Ops /\ NoLabel \notin Ops

----------------------------------------------------------------------------
(* PreProcRawData *)

\* SaveOneParsedTable: one label must not come twice.
SaveOneParsedTable(dict, label, table) ==
  IF label = NoLabel THEN Done(dict)
  ELSE IF label \in DOMAIN dict THEN Error
  ELSE Done([l \in DOMAIN dict \cup {label} |-> IF l = label THEN table ELSE dict[l]])

Parsing(dict, label, table) == [ok |-> TRUE, dict |-> dict, label |-> label, table |-> table]

\* The body of the loop of ParseYcsbCsv.
ParseLine(p, line) ==
  IF ~p.ok THEN Error
  ELSE LET saved == SaveOneParsedTable(p.dict, p.label, p.table) IN
       IF \/ line.kind = "header" /\ ~saved.ok
          \/ ~isFailAllowed /\ ContainsFail(line) THEN Error
       ELSE CASE line.kind = "header" -> Parsing(saved.val, line.op, <<>>)
              [] line.kind = "record" -> Parsing(p.dict, p.label, Append(p.table, line))
              [] line.kind = "preamble" -> p

NoTables == [l \in {} |-> <<>>]

ParseLines(lines) ==
  LET upTo[k \in 0 .. Len(lines)] ==
        IF k = 0 THEN Parsing(NoTables, NoLabel, <<>>) ELSE ParseLine(upTo[k - 1], lines[k])
  IN upTo[Len(lines)]

\* A slip of ParseYcsbCsv: the last table is not saved.
ParseButLast(lines) ==
  LET end == ParseLines(lines) IN IF end.ok THEN Done(end.dict) ELSE Error

ParseYcsbCsv(lines) ==
  LET end == ParseLines(lines) IN
  IF end.ok THEN SaveOneParsedTable(end.dict, end.label, end.table) ELSE Error

\* MergeTableDict: the tables of one label are concatenated.
MergeTableDict(dictA, dictB) ==
  [l \in DOMAIN dictA \cup DOMAIN dictB |->
     (IF l \in DOMAIN dictA THEN dictA[l] ELSE <<>>) \o
     (IF l \in DOMAIN dictB THEN dictB[l] ELSE <<>>)]

\* sort_values: nothing relies on the order among equal timestamps.
SortByTimestamp(records) ==
  LET order == SortedPlaces([k \in DOMAIN records |-> records[k].ts]) IN
  [k \in DOMAIN records |-> records[order[k]]]

\* CombineTableInDict: all tables in one, sorted; it raises if there is none.
CombineTableInDict(dict) ==
  IF DOMAIN dict = {} THEN Error
  ELSE LET labels == SetToSeq(DOMAIN dict) IN
       Done(SortByTimestamp(FlattenSeq([k \in DOMAIN labels |-> dict[labels[k]]])))

\* The tables of all files, merged one file after the other.
MergeAll(dicts) ==
  LET upTo[f \in 0 .. Len(dicts)] ==
        IF f = 0 THEN NoTables ELSE MergeTableDict(upTo[f - 1], dicts[f].val)
  IN upTo[Len(dicts)]

GetPreProcedYcsbData ==
  LET dicts == [f \in DOMAIN files |-> ParseYcsbCsv(files[f])] IN
  IF \E f \in DOMAIN files : ~dicts[f].ok THEN Error ELSE CombineTableInDict(MergeAll(dicts))

----------------------------------------------------------------------------
(* FinalProcRawData *)

GetTimestampRange(dataF) ==
  IF dataF = <<>> THEN <<0, 0>> ELSE <<Head(dataF).ts, Last(dataF).ts>>

\* A slip of TrimOffByTimeRange: both counts start at the beginning.
TrimFromTheStart(dataF, timeRange) ==
  LET tooEarly == {k \in DOMAIN dataF : dataF[k].ts < timeRange[1]}
      tooLate == {k \in DOMAIN dataF : dataF[k].ts > timeRange[2]} IN
  SubSeq(dataF, Cardinality(tooEarly) + 1 + Cardinality(tooLate), Len(dataF))

\* TrimOffByTimeRange: one loop counts from the start while records are too
\* early, one from the end while they are too late.
TrimOffByTimeRange(dataF, timeRange) ==
  LET startIdx == Cardinality({k \in DOMAIN dataF :
                                 \A j \in 1 .. k : dataF[j].ts < timeRange[1]})
      tooLate == Cardinality({k \in DOMAIN dataF :
                                \A j \in k .. Len(dataF) : dataF[j].ts > timeRange[2]}) IN
  SubSeq(dataF, startIdx + 1, Len(dataF) - tooLate)

\* Series.mean, as a fraction; there is none of nothing (NaN).
Mean(values) == [sum |-> Total(values), of |-> Len(values)]

\* Series.quantile: percentile / 100.0 of the intervals between n values, and if this
\* is no whole number the higher of two.  It is computed with floats: one that should be
\* whole may come out a little above, which gives the next.
HigherRank(n) ==
  LET exact == CHOOSE r \in 0 .. n - 1 : /\ Whole * r >= Percentile * (n - 1)
                                         /\ Whole * (r - 1) < Percentile * (n - 1) IN
  IF Whole * exact = Percentile * (n - 1) /\ n \in RoundedUp THEN exact + 1 ELSE exact
Quantile(values) == values[SortedPlaces(values)[HigherRank(Len(values)) + 1]]

\* A slip of GetYcsbDataResult: the empty range is taken for a result.
EmptyResultToo(df, timeRange) ==
  LET trimmed == TrimOffByTimeRange(df, timeRange)
      lats == [k \in DOMAIN trimmed |-> trimmed[k].lat] IN
  Done([totalOps |-> Len(trimmed), timeElapsed |-> 0, perLat |-> 0, avgLat |-> Mean(lats)])

\* GetYcsbDataResult: with no record left the throughput, totalOps over timeElapsed,
\* divides by zero and raises; with no time between the records it is infinite.
GetYcsbDataResult(df, timeRange) ==
  LET trimmed == TrimOffByTimeRange(df, timeRange)
      range == GetTimestampRange(trimmed)
      lats == [k \in DOMAIN trimmed |-> trimmed[k].lat] IN
  IF trimmed = <<>> THEN Error
  ELSE Done([totalOps |-> Len(trimmed), timeElapsed |-> range[2] - range[1],
             perLat |-> Quantile(lats), avgLat |-> Mean(lats)])

\* GetSvrStatDataResult: the averages of the columns; for the processes, the sums of
\* their columns over the number of samples and processes.
GetSvrStatDataResult(timeRange) ==
  LET samples == TrimOffByTimeRange(SortByTimestamp(SvrStat), timeRange)
      column(Get(_)) == Mean([k \in DOMAIN samples |-> Get(samples[k])]) IN
  [overall |-> column(LAMBDA s : s.overall), node |-> column(LAMBDA s : s.node),
   sys |-> column(LAMBDA s : s.sys),
   procs |-> Mean(FlattenSeq([k \in DOMAIN samples |-> samples[k].procs]))]

ProcessResultSet ==
  LET df == GetPreProcedYcsbData IN
  IF ~df.ok THEN Error
  ELSE LET full == GetTimestampRange(df.val)
           trimmed == <<full[1] + WarmupT, full[2] - TerminateT>>
           ycsb == GetYcsbDataResult(df.val, trimmed) IN
       IF ~ycsb.ok THEN Error
       ELSE Done([ycsb |-> ycsb.val, server |-> GetSvrStatDataResult(trimmed)])

----------------------------------------------------------------------------
(* The raw files, as the clients' benchmarks write them *)

Init ==
  /\ files = [f \in 1 .. NumFiles |-> <<>>]
  /\ isFailAllowed \in BOOLEAN

\* The table that a file's next record belongs to.
CurrentOp(lines) ==
  IF \E k \in DOMAIN lines : lines[k].kind = "header" THEN {Last(lines).op} ELSE {}

Room == Total([f \in DOMAIN files |-> Len(files[f])]) < MaxLines
Write(f, line) == files' = [files EXCEPT ![f] = Append(@, line)] /\ UNCHANGED isFailAllowed

WritePreamble ==
  \E f \in DOMAIN files : Room /\ files[f] = <<>> /\ Write(f, Preamble)
WriteHeader ==
  \E f \in DOMAIN files, op \in Ops : Room /\ Write(f, Header(op))
WriteRecord ==
  \E f \in DOMAIN files : \E op \in CurrentOp(files[f]), ts \in Timestamps :
    Room /\ Write(f, Record(op, ts))

Next == WritePreamble \/ WriteHeader \/ WriteRecord

Spec == Init /\ [][Next]_vars

----------------------------------------------------------------------------
(* What was written *)

HeadersOf(lines) == {k \in DOMAIN lines : lines[k].kind = "header"}
Written(Test(_)) ==
  UNION {{<<f, k>> : k \in {j \in DOMAIN files[f] : Test(files[f][j])}} : f \in DOMAIN files}
Times == {files[w[1]][w[2]].ts : w \in Written(IsRecord)}
First == CHOOSE ts \in Times : \A other \in Times : ts <= other
Latest == CHOOSE ts \in Times : \A other \in Times : ts >= other
Measured(line) ==
  IsRecord(line) /\ First + WarmupT <= line.ts /\ line.ts <= Latest - TerminateT

RepeatedTable(lines) == \E j, k \in HeadersOf(lines) : j # k /\ lines[j].op = lines[k].op

\* The records of an operation in a file, in their order.
RecordsOf(lines, op) ==
  LET upTo[k \in 0 .. Len(lines)] ==
        IF k = 0 THEN <<>>
        ELSE IF IsRecord(lines[k]) /\ lines[k].op = op THEN Append(upTo[k - 1], lines[k])
        ELSE upTo[k - 1]
  IN upTo[Len(lines)]

\* A file's tables are its records by operation, each in the order it was
\* written; a label that comes twice and a failure that is not allowed are errors.
TablesAsWritten ==
  \A f \in DOMAIN files : LET lines == files[f] IN
    ParseYcsbCsv(lines) =
      IF RepeatedTable(lines) \/ (~isFailAllowed /\ \E k \in DOMAIN lines : ContainsFail(lines[k]))
        THEN Error
        ELSE Done([op \in {lines[k].op : k \in HeadersOf(lines)} |-> RecordsOf(lines, op)])

LatencyBelow(limit) == Cardinality(Written(LAMBDA line : Measured(line) /\ line.lat < limit))

\* The row counts every record of every client that was written at least WarmupT
\* after the first one and TerminateT before the last, and no other, and its time
\* lies within that span.  Its latency is the least measured one that Percentile
\* percent of these records do not exceed, by the count of intervals between them, or
\* where rounding may lift it the next.  The averages of the server are over the samples
\* of the same span.
RowIsRight ==
  LET row == ProcessResultSet
      ops == row.val.ycsb.totalOps IN
  row.ok =>
    /\ ops = Cardinality(Written(Measured))
    /\ row.val.ycsb.timeElapsed \in 0 .. Latest - First - WarmupT - TerminateT
    /\ LatencyBelow(row.val.ycsb.perLat + 1) > LatencyBelow(row.val.ycsb.perLat)
    /\ Whole * LatencyBelow(row.val.ycsb.perLat + 1) >= Percentile * ops
    /\ \/ Whole * (LatencyBelow(row.val.ycsb.perLat) - 1) < Percentile * (ops - 1)
       \/ /\ Whole * (LatencyBelow(row.val.ycsb.perLat) - 1) = Percentile * (ops - 1)
          /\ ops \in RoundedUp
    /\ row.val.server.overall.of =
         Cardinality({k \in DOMAIN SvrStat :
                        First + WarmupT <= SvrStat[k].ts /\ SvrStat[k].ts <= Latest - TerminateT})

\* There is no row exactly if a file is wrong, there is no table, or no record is
\* left: nothing else is lost to an exception, and no empty row is made.
NoRowIsRight ==
  ~ProcessResultSet.ok <=>
    \/ \E f \in DOMAIN files : RepeatedTable(files[f])
    \/ ~isFailAllowed /\ Written(ContainsFail) # {}
    \/ \A f \in DOMAIN files : HeadersOf(files[f]) = {}
    \/ Times = {}
    \/ Written(Measured) = {}
=============================================================================
