----------------------------- MODULE StickTables -----------------------------
(***************************************************************************)
(* GET /api/security/stats: the counters of HAProxy's `web` stick table.   *)
(*                                                                         *)
(* `show table web` goes to a socket that is the master's CLI, where it    *)
(* needs the prefix "@1", or a plain stats socket, where it must not have  *)
(* it; what cannot be answered is answered in words, or with nothing.  A   *)
(* row is a pointer and name=value pairs, for the fields that the table    *)
(* stores.  The template may have drifted from the contract, and HAProxy's *)
(* output from the parser: that must be an error, never a zero.            *)
(***************************************************************************)
EXTENDS Naturals, FiniteSets, SequencesExt

CONSTANTS
    Sources,        \* addresses the table may track
    Counters,       \* what the counters of a source may be
    Garbled,        \* a value that is not a number
    Queries         \* the parameters of requests

\* STICK_TABLE_FIELD_CONTRACT['web']
Contract == {"conn_cur", "conn_rate", "http_req_rate", "http_err_rate"}

\* get_security_stats() raises a limit below 1 and a negative rate.
ASSUME StatsAssumption ==
    /\ IsFiniteSet(Sources)
    /\ Garbled \notin Nat /\ Counters \subseteq [Contract -> Nat \cup {Garbled}]
    /\ Queries \subseteq [limit: Nat \ {0}, min_req_rate: Nat]

\* HAProxy's side of the socket: no process, a master with or without a worker, or
\* a worker's own stats socket, with or without the table.
Sockets == {"nobody", "master", "master without worker", "worker", "worker without table"}

VARIABLES
    socket,     \* one of Sockets
    stored,     \* the fields of the table's `store` clause
    table,      \* the counters of each source that is tracked
    query,      \* the parameters of the request
    answer      \* how it was answered

stats_vars == <<socket, stored, table, query, answer>>

StatsTypeOK ==
    /\ socket \in Sockets /\ stored \subseteq Contract /\ query \in Queries
    /\ DOMAIN table \subseteq Sources /\ table \in [DOMAIN table -> Counters]
    /\ answer.status \in {"none", "success", "502"} /\ answer.active \in Nat
-----------------------------------------------------------------------------
(* HAProxy *)

\* A row: the pairs of a name and a value; the pointer has no name.
EntryLine(ip) ==
    {<<"", "0x...">>, <<"key", ip>>, <<"use", 0>>, <<"exp", 0>>}
        \cup {<<f, table[ip][f]>> : f \in stored}

Refusal == [kind |-> "error marker", lines |-> {}]
Silence == [kind |-> "empty", lines |-> {}]
Dump    == [kind |-> "dump", lines |-> {EntryLine(ip) : ip \in DOMAIN table}]

\* What comes back for `show table web`; socat fails when nobody listens.
Response(prefixed) ==
    IF socket = (IF prefixed THEN "master" ELSE "worker") THEN Dump
    ELSE IF socket = "master without worker" /\ prefixed THEN Silence
    ELSE Refusal
-----------------------------------------------------------------------------
(* haproxy_manager.py *)

\* Mutant: the first answer is the answer.
haproxy_cli_Believing == Response(TRUE)

\* "try the prefixed form and fall back -- and raise if BOTH are rejected"
haproxy_cli ==
    LET answered == {p \in BOOLEAN : Response(p).kind = "dump"} IN
    IF socket = "nobody" \/ answered = {} THEN Refusal
    ELSE Response(TRUE \in answered)

Named(line, f) == {p \in line : p[1] = f}

\* Mutant: a field that is not there counts as zero.
parse_stick_table_entry_Zero(line) ==
    [f \in Contract \cup {"key"} |->
        IF Named(line, f) = {} THEN 0 ELSE (CHOOSE p \in Named(line, f) : TRUE)[2]]

\* The pairs by their names, not by their positions; the pointer has none.
parse_stick_table_entry(line) ==
    [f \in {p[1] : p \in line} \ {""} |-> (CHOOSE p \in Named(line, f) : TRUE)[2]]

\* The rows of a dump, unless one of them lacks a field of the contract.
read_stick_table ==
    LET entries == {parse_stick_table_entry(line) : line \in haproxy_cli.lines} IN
    IF haproxy_cli.kind = "dump" /\ \A e \in entries : Contract \cup {"key"} \subseteq DOMAIN e
    THEN [ok |-> TRUE, entries |-> entries] ELSE [ok |-> FALSE, entries |-> {}]

\* sources.sort(key=..., reverse=True)
Above(r, s) ==
    LET Key(x) == <<x["http_req_rate"], x["http_err_rate"], x["conn_rate"], x["conn_cur"]>> IN
    \E i \in 1..4 : Key(r)[i] > Key(s)[i] /\ \A j \in 1..(i - 1) : Key(r)[j] = Key(s)[j]

\* Its result; sources with the same rates stay in the order of the dump, which is any.
Sorted(rows) ==
    {s \in SetToSeqs(rows) : \A i, j \in 1..Cardinality(rows) : i < j => ~Above(s[j], s[i])}

NoAnswer == [status |-> "none", sources |-> <<>>, active |-> 0]
Error    == [status |-> "502", sources |-> <<>>, active |-> 0]

get_security_stats ==
    LET entries == read_stick_table.entries IN
    /\ answer = NoAnswer
    /\ IF ~read_stick_table.ok \/ \E e \in entries, f \in Contract : e[f] = Garbled
       THEN answer' = Error
       ELSE \E sources \in Sorted({e \in entries : e["http_req_rate"] >= query.min_req_rate}) :
              answer' =
                [status  |-> "success",
                 sources |-> SubSeq(sources, 1, Min({query.limit, Len(sources)})),
                 active  |-> Cardinality({e \in entries : \E f \in Contract : e[f] > 0})]
    /\ UNCHANGED <<socket, stored, table, query>>
-----------------------------------------------------------------------------
StatsInit ==
    /\ socket \in Sockets
    /\ stored \in {Contract} \cup {Contract \ {f} : f \in Contract}
    /\ \E tracked \in SUBSET Sources : table \in [tracked -> Counters]
    /\ query \in Queries
    /\ answer = NoAnswer

StatsNext == get_security_stats

StatsSpec == StatsInit /\ [][StatsNext]_stats_vars
-----------------------------------------------------------------------------
(* Properties *)

\* "NEVER default a missing field to a number": an answer that is not an error shows
\* what the table holds - every source at or above the rate asked for, until the
\* limit, the busiest first, each once and with its own counters, and how many
\* sources are active - and there is an error exactly when the table could not be
\* read, lacks a field of the contract on the row of a source, or has a counter that
\* is not a number.
StatsAreTheTable ==
    answer # NoAnswer =>
        LET shown    == answer.sources
            wanted   == {ip \in DOMAIN table : table[ip]["http_req_rate"] >= query.min_req_rate}
            readable == /\ socket \in {"master", "worker"}
                        /\ DOMAIN table = {} \/ stored = Contract
                        /\ \A ip \in DOMAIN table, f \in Contract : table[ip][f] # Garbled
        IN
        /\ answer.status = "success" <=> readable
        /\ readable =>
            /\ answer.active =
                 Cardinality({ip \in DOMAIN table : \E f \in Contract : table[ip][f] > 0})
            /\ Len(shown) = Min({query.limit, Cardinality(wanted)})
            /\ \A i \in DOMAIN shown :
                /\ shown[i]["key"] \in wanted
                /\ \A f \in Contract : shown[i][f] = table[shown[i]["key"]][f]
                /\ \A j \in DOMAIN shown : i # j => shown[i]["key"] # shown[j]["key"]
                /\ \A ip \in wanted \ {shown[j]["key"] : j \in DOMAIN shown} :
                        table[ip]["http_req_rate"] <= shown[i]["http_req_rate"]
=============================================================================
