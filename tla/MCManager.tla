------------------------------ MODULE MCManager ------------------------------
EXTENDS Manager, TLC

Req(d, w, o, n, s) ==
    [domain |-> d, wildcard |-> w, override |-> o, name |-> n, servers |-> s]

\* A domain that moves to another name and other servers, or to a template without
\* the section for server-sent events; a wildcard over it, which may take the name
\* that section would have; and a domain that loses its servers.
MCRequests ==
    {Req("a.b", FALSE, NoTemplate, "n1", {"s1"}),
     Req("a.b", FALSE, NoTemplate, "n2", {"s2"}),
     Req("a.b", FALSE, "hap_backend_basic", "n1", {"s1"}),
     Req("*.b", TRUE, "hap_backend_basic", "n2", {"s2"}),
     Req("*.b", TRUE, NoTemplate, "n1-sse", {"s2"}),
     Req("c", FALSE, "hap_backend_websocket", "n3", {"s3"}),
     Req("c", FALSE, NoTemplate, "n3", {})}

MCCovers ==
    [d \in {"a.b", "*.b", "c"} |-> IF d = "*.b" THEN {"a.b", "z.b"} ELSE {}]

\* A leaf with and without an issuer's certificate, and blocks with nothing in them.
MCFullchains ==
    {PemBlock(Certificate, "leaf"),
     PemBlock(Certificate, "leaf") \o PemBlock(Certificate, "intermediate"),
     PemBlock(Certificate, "leaf") \o EmptyPemBlock(Certificate),
     EmptyPemBlock(Certificate) \o PemBlock(Certificate, "intermediate")}

\* In the contract's order: an idle source, one with idle connections, busy ones, one
\* that only errs, and one whose counter cannot be read.
Rates(cur, rate, reqs, errs) ==
    [conn_cur |-> cur, conn_rate |-> rate, http_req_rate |-> reqs, http_err_rate |-> errs]

MCCounters ==
    {Rates(0, 0, 0, 0), Rates(1, 0, 0, 0), Rates(0, 1, 1, 0), Rates(1, 1, 2, 0),
     Rates(0, 0, 2, 1), Rates(1, Garbled, 1, 1)}

MCQueries == [limit: 1..2, min_req_rate: 0..1]

\* Threads are alike, and so are addresses.
Alike == {q @@ p : q \in Permutations(Handlers), p \in Permutations(Ips)}
=============================================================================
