-------------------------------- MODULE LogScans --------------------------------
(***************************************************************************)
(* The log tools that read a bounded number of entries and report what     *)
(* they found in them (gcpdata/logs.go, traces_from_logs.go): requests,    *)
(* services, a summary, and the traces of the entries; and the bound on    *)
(* the size of one entry of an answer.                                     *)
(*                                                                         *)
(* An entry is [http, resource, severity, trace, time, message]; Absent    *)
(* stands for what it lacks, texts are numbers in their order, and a       *)
(* message is the one extractErrorMessage or sampleLogMessage finds.  A    *)
(* resource is <<>> or <<[type, name, namespace, label]>>, with the name   *)
(* its type is known by and the service label of its labels.  An entry of  *)
(* an answer is its position among those the filter selects.               *)
(***************************************************************************)
EXTENDS Integers, FiniteSets, Sequences, Functions, FiniteSetsExt

CONSTANTS
    LogInputs,      \* the entries a filter selects, newest first
    EntrySizes,     \* sizes of the parts of an entry, for BoundLogEntry
    ResultLimits,   \* limits asked for
    LogsHardLimit,
    TopServices,    \* the number of services, and of errors, in a summary
    ErrorSeverity,  \* the rank of ERROR
    K8sContainer    \* the type of resources with a namespace

Absent == 0

VARIABLES input, call, answer
vars == <<input, call, answer>>

(* Ranks, times and texts are numbers; JSON needs at most six bytes for a  *)
(* byte of text.                                                           *)
Resources == [type : Nat, name : Nat, namespace : Nat, label : Nat]
LogEntries ==
    [http : BOOLEAN, resource : Seq(Resources), severity : Nat,
     trace : Nat, time : Nat, message : Nat]
EntryParts ==
    [json : Nat, text : Nat, grow : 1..6, url : Nat, agent : Nat, labels : Nat, resource : Nat,
     http : Nat, meta : Nat]
ScanConstants ==
    /\ LogsHardLimit \in Nat \ {0} /\ TopServices \in Nat /\ ResultLimits \subseteq Nat
    /\ \A log \in LogInputs : Len(log) \in Nat /\ log \in [1..Len(log) -> LogEntries]
    /\ EntrySizes \subseteq EntryParts

Least(a, b) == IF a < b THEN a ELSE b

(* A map of counts, one more of v.                                         *)
Bump(counts, v) ==
    [x \in DOMAIN counts \union {v} |->
       (IF x \in DOMAIN counts THEN counts[x] ELSE 0) + (IF x = v THEN 1 ELSE 0)]
BumpNamed(counts, v) == IF v = Absent THEN counts ELSE Bump(counts, v)

(* The first limit of what a sort puts in order: those that come before x  *)
(* are ahead[x].                                                           *)
Ranked(ahead, limit) ==
    [k \in 1..Least(Cardinality(DOMAIN ahead), limit) |->
       CHOOSE x \in DOMAIN ahead : Cardinality(ahead[x]) = k - 1]

(* topNBy: the greatest counts first, equal ones by key.                   *)
Greatest(counts, n) ==
    Ranked([a \in DOMAIN counts |->
              {b \in DOMAIN counts : counts[b] > counts[a] \/ (counts[b] = counts[a] /\ b < a)}], n)

-----------------------------------------------------------------------------
(* A service is known by its type and name, in a namespace for containers; *)
(* the version of an App Engine module is that of the entry seen first.    *)
ServiceKey(r) == <<r.type, r.name, IF r.type = K8sContainer THEN r.namespace ELSE Absent>>
Named(e) == e.resource # <<>> /\ e.resource[1].name # Absent

(* extractServiceName: the first service label, else the resource type.    *)
ServiceName(e) ==
    IF e.resource = <<>> THEN Absent
    ELSE IF e.resource[1].label # Absent THEN e.resource[1].label ELSE e.resource[1].type

ErrorMessage(e) == IF e.severity >= ErrorSeverity THEN e.message ELSE Absent

(* What aggregateTracesFromLogs keeps of a trace: the message is that of   *)
(* the entry of the highest severity so far, if it has one.                *)
NewTrace(e) ==
    [count |-> 0, first |-> e.time, last |-> e.time, severity |-> -1, message |-> Absent, service |-> Absent]

AddEntry(a, e) ==
    [count |-> a.count + 1,
     first |-> IF e.time # Absent /\ (a.first = Absent \/ e.time < a.first) THEN e.time ELSE a.first,
     last |-> IF e.time > a.last THEN e.time ELSE a.last,
     severity |-> IF e.severity > a.severity THEN e.severity ELSE a.severity,
     message |-> IF e.severity > a.severity /\ e.message # Absent THEN e.message ELSE a.message,
     service |-> IF a.service = Absent THEN ServiceName(e) ELSE a.service]

AddToTraces(traces, e) ==
    LET id == e.trace
        seen == IF id \in DOMAIN traces THEN traces[id] ELSE NewTrace(e)
    IN IF id = Absent THEN traces
       ELSE [t \in DOMAIN traces \union {id} |-> IF t = id THEN AddEntry(seen, e) ELSE traces[t]]

(* The most active traces first, then the most recent.                     *)
Before(traces, a, b) ==
    \/ traces[a].count > traces[b].count
    \/ /\ traces[a].count = traces[b].count
       /\ traces[a].last > traces[b].last \/ (traces[a].last = traces[b].last /\ a < b)

-----------------------------------------------------------------------------
(* boundLogEntry cuts an entry to 8 KiB as JSON, part by part in a fixed   *)
(* order.  An entry is the sizes of its parts; a text takes up to grow     *)
(* times its size when encoded, and fields that become text are encoded    *)
(* again.                                                                  *)
MaxBytes == 8192
Size(e) == e.json + e.grow * (e.text + e.url + e.agent + e.labels + e.resource) + e.http + e.meta

(* A map of labels is cut to 24 entries of 128 bytes; an oversized payload *)
(* of fields becomes text.                                                 *)
LabelBytes == 24 * 2 * 128
Shorten(e) ==
    [e EXCEPT !.json = 0,
              !.text = IF e.json > 0 THEN Least(e.json, 4096) ELSE Least(@, 4096),
              !.url = Least(@, 512), !.agent = Least(@, 256),
              !.labels = Least(@, LabelBytes), !.resource = Least(@, LabelBytes)]

DropWhile(e, Drop(_)) == IF Size(e) > MaxBytes THEN Drop(e) ELSE e

Reduce(e) ==
    LET noLabels == DropWhile(Shorten(e), LAMBDA x : [x EXCEPT !.labels = 0])
        noResource == DropWhile(noLabels, LAMBDA x : [x EXCEPT !.resource = 0])
        noRequest == DropWhile(noResource, LAMBDA x : [x EXCEPT !.url = 0, !.agent = 0, !.http = 0])
    IN DropWhile(noRequest, LAMBDA x : [x EXCEPT !.text = Least(@, 1024)])

(* What remains when even that is too large: six identity fields, 800      *)
(* bytes in all, and the names of the parts that were cut.                 *)
RoutingOnly(e) ==
    [e EXCEPT !.json = 0, !.text = Least(e.meta, 800), !.url = 0, !.agent = 0,
              !.labels = 0, !.resource = 0, !.http = 0, !.meta = 200]

BoundLogEntry(e) ==
    IF Size(e) <= MaxBytes THEN e
    ELSE DropWhile(Reduce(e), RoutingOnly)

-----------------------------------------------------------------------------
Idle == [pc |-> "ask"]
NoAnswer == [tool |-> "none"]

Init ==
    /\ input \in LogInputs
    /\ call = Idle
    /\ answer = NoAnswer

(* A tool reads at most most entries.                                      *)
Begin(tool, limit, most, found) ==
    /\ call = Idle /\ answer = NoAnswer
    /\ call' = [pc |-> "scan", tool |-> tool, limit |-> limit, most |-> most, read |-> 0, found |-> found]
    /\ UNCHANGED <<input, answer>>

FindRequests(asked) == Begin("requests", Least(asked, LogsHardLimit), LogsHardLimit, <<>>)
ListServices == Begin("services", TopServices, LogsHardLimit, <<>>)
SummarizeLogs ==
    Begin("summary", TopServices, LogsHardLimit, [severities |-> <<>>, services |-> <<>>, errors |-> <<>>])
FindTracesFromLogs(scanLimit, limit) == Begin("traces", limit, Least(scanLimit, LogsHardLimit), <<>>)

Scanning(tool) == call.pc = "scan" /\ call.tool = tool
MoreToRead == call.read < call.most /\ call.read < Len(input)
Entry == input[call.read + 1]
Read(found) ==
    /\ call' = [call EXCEPT !.read = @ + 1, !.found = found]
    /\ UNCHANGED <<input, answer>>

Reply(truncated, result) ==
    /\ answer' = [tool |-> call.tool, limit |-> call.limit, scanned |-> call.read,
                  truncated |-> truncated, result |-> result]
    /\ call' = Idle
    /\ UNCHANGED input

(* FindRequests looks for one request more than it may return, to know     *)
(* whether there are more.                                                 *)
(* Variant: nothing is looked for beyond the limit.                        *)
Enough_NoLookahead(found, limit) == Len(found) >= limit

Enough(found, limit) == Len(found) > limit

ReadRequest ==
    /\ Scanning("requests") /\ MoreToRead /\ ~ Enough(call.found, call.limit)
    /\ Read(IF Entry.http THEN Append(call.found, call.read + 1) ELSE call.found)

ReturnRequests ==
    /\ Scanning("requests") /\ (~ MoreToRead \/ Enough(call.found, call.limit))
    /\ Reply(Len(call.found) > call.limit \/ call.read >= LogsHardLimit,
             SubSeq(call.found, 1, Least(Len(call.found), call.limit)))

(* The entry seen first says how its service is called.                    *)
ReadService ==
    /\ Scanning("services") /\ MoreToRead
    /\ LET key == ServiceKey(Entry.resource[1])
           seen == [k \in DOMAIN call.found \union {key} |->
                      IF k \in DOMAIN call.found THEN call.found[k] ELSE Entry.resource[1]]
       IN Read(IF Named(Entry) THEN seen ELSE call.found)

ReturnServices ==
    /\ Scanning("services") /\ ~ MoreToRead
    /\ Reply(call.read >= LogsHardLimit, call.found)

ReadForSummary ==
    /\ Scanning("summary") /\ MoreToRead
    /\ Read([severities |-> Bump(call.found.severities, Entry.severity),
             services |-> BumpNamed(call.found.services, ServiceName(Entry)),
             errors |-> BumpNamed(call.found.errors, ErrorMessage(Entry))])

ReturnSummary ==
    /\ Scanning("summary") /\ ~ MoreToRead
    /\ Reply(call.read >= LogsHardLimit,
             [counts |-> call.found, samples |-> Least(5, call.read),
              services |-> Greatest(call.found.services, TopServices),
              errors |-> Greatest(call.found.errors, TopServices)])

ReadForTraces ==
    /\ Scanning("traces") /\ MoreToRead
    /\ Read(AddToTraces(call.found, Entry))

(* aggregateTracesFromLogs: there may be more entries, or more traces.     *)
(* QueryLogs, which reads the entries, may stop before the limit when its  *)
(* time is over; that its token tells whether entries are left is taken as *)
(* given here, and LogPages says when it does not.                         *)
ReturnTraces ==
    /\ Scanning("traces")
    /\ LET ids == DOMAIN call.found
       IN Reply(call.read < Len(input) \/ Cardinality(ids) > call.limit,
                [shown |-> Ranked([a \in ids |-> {b \in ids : Before(call.found, b, a)}], call.limit),
                 traces |-> call.found])

(* A failure of the iterator fails the call, whatever it has read.         *)
ScanFailed ==
    /\ call.pc = "scan"
    /\ answer' = [tool |-> "error"]
    /\ call' = Idle
    /\ UNCHANGED input

(* An entry on its way into an answer.                                     *)
ConvertEntry ==
    /\ call = Idle /\ answer = NoAnswer /\ input = <<>>
    /\ \E e \in EntrySizes : answer' = [tool |-> "entry", result |-> BoundLogEntry(e)]
    /\ UNCHANGED <<input, call>>

Again ==
    /\ answer # NoAnswer
    /\ answer' = NoAnswer
    /\ UNCHANGED <<input, call>>

Next ==
    \/ \E limit \in ResultLimits :
         \/ FindRequests(limit)
         \/ \E scanLimit \in ResultLimits : FindTracesFromLogs(scanLimit, limit)
    \/ ListServices \/ SummarizeLogs
    \/ ReadRequest \/ ReadService \/ ReadForSummary \/ ReadForTraces
    \/ ReturnRequests \/ ReturnServices \/ ReturnSummary \/ ReturnTraces
    \/ ScanFailed \/ ConvertEntry \/ Again

Spec == Init /\ [][Next]_vars

-----------------------------------------------------------------------------
Result == answer.result
Shown(list) == {list[k] : k \in DOMAIN list}
Increasing(list) == \A j, k \in DOMAIN list : j < k => list[j] < list[k]

(* The requests of an answer are all those up to the last of them, and,    *)
(* when it does not say it is truncated, all there are; when it says so,   *)
(* it is as long as it may be or has read as much as it may.               *)
RequestsHonest ==
    answer.tool = "requests" =>
      LET requests == {i \in DOMAIN input : input[i].http}
      IN /\ Increasing(Result) /\ Shown(Result) \subseteq requests
         /\ \A i \in requests, j \in Shown(Result) : i < j => i \in Shown(Result)
         /\ IF answer.truncated THEN Len(Result) = answer.limit \/ answer.scanned = LogsHardLimit
            ELSE Shown(Result) = requests

(* Services are those of the entries read.                                 *)
ServicesHonest ==
    answer.tool = "services" =>
      /\ DOMAIN Result = {ServiceKey(input[i].resource[1]) : i \in {j \in 1..answer.scanned : Named(input[j])}}
      /\ \A key \in DOMAIN Result : ServiceKey(Result[key]) = key
      /\ ~ answer.truncated => answer.scanned = Len(input)

(* Counts are those of the values but those ignored, and a list of the     *)
(* greatest has room for what it leaves out only if that counts less.      *)
Tally(values, ignored) ==
    [v \in Range(values) \ ignored |-> Cardinality({i \in DOMAIN values : values[i] = v})]
IsTop(list, counts) ==
    /\ Shown(list) \subseteq DOMAIN counts
    /\ \A j, k \in DOMAIN list : j < k => list[j] # list[k] /\ counts[list[j]] >= counts[list[k]]
    /\ \A v \in DOMAIN counts \ Shown(list) :
         Len(list) = TopServices /\ \A k \in DOMAIN list : counts[v] <= counts[list[k]]

SummaryHonest ==
    answer.tool = "summary" =>
      LET counts == Result.counts  read == 1..answer.scanned
      IN /\ counts.severities = Tally([i \in read |-> input[i].severity], {})
         /\ counts.services = Tally([i \in read |-> ServiceName(input[i])], {Absent})
         /\ counts.errors = Tally([i \in read |-> ErrorMessage(input[i])], {Absent})
         /\ IsTop(Result.services, counts.services) /\ IsTop(Result.errors, counts.errors)
         /\ ~ answer.truncated => answer.scanned = Len(input)

(* The figures of a trace are those of its entries among the ones read,    *)
(* and traces that were left out are less active.                          *)
EntriesOf(id, n) == {i \in 1..n : input[i].trace = id}
FiguresRight(id, t, n) ==
    LET mine == EntriesOf(id, n)
        times == {input[i].time : i \in mine} \ {Absent}
    IN /\ t.count = Cardinality(mine)
       /\ t.severity = Max({input[i].severity : i \in mine})
       /\ t.last = Max({Absent} \union times)
       /\ times # {} => t.first = Min(times)
TracesHonest ==
    answer.tool = "traces" =>
      LET shown == Shown(Result.shown)  n == answer.scanned
          hidden == {input[i].trace : i \in 1..n} \ (shown \union {Absent})
      IN /\ \A id \in shown : FiguresRight(id, Result.traces[id], n)
         /\ \A h \in hidden, id \in shown :
              Cardinality(EntriesOf(h, n)) <= Cardinality(EntriesOf(id, n))
         /\ answer.truncated = (n < Len(input) \/ hidden # {})

(* Every entry of an answer is within 8 KiB.                               *)
EntryWithinBudget == answer.tool = "entry" => Size(Result) <= MaxBytes

(* What the log tools report of the entries they read is right, and they   *)
(* say when they have not read them all (logs.go:82-174, 225-471, 541-616; *)
(* traces_from_logs.go:39-118).                                            *)
ScansHonest ==
    RequestsHonest /\ ServicesHonest /\ SummaryHonest /\ TracesHonest /\ EntryWithinBudget
===============================================================================
