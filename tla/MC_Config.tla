----------------------------- MODULE MC_Config -----------------------------
(* Config for TLC: every combination of values for one checker, and several *)
(* checkers of few values each.                                             *)
EXTENDS Config

Entry(name, type, interval, timeout, own) ==
    [name |-> name, type |-> type, interval |-> interval, timeout |-> timeout,
     own |-> own]
DNS(domain, target, query) ==
    [domain |-> domain, target |-> target, queryTimeout |-> query]
PodStartup(ns, key, startup, tcp, max) ==
    [namespace |-> ns, labelKey |-> key, startupTimeout |-> startup,
     tcpTimeout |-> tcp, max |-> max]
APIServer(ns, key, mutate, read, max) ==
    [namespace |-> ns, labelKey |-> key, mutateTimeout |-> mutate,
     readTimeout |-> read, max |-> max]

Edges == {-1, 0, 1, 2, 3, MaxDuration}
Headers ==
    {<<n, i, t>> : n \in {"", "a"}, i \in {0, 1},
                   t \in {0, 1, 2, 3, MaxDuration}}
Singles ==
    {<<Entry(h[1], "DNS", h[2], h[3], DNS(d, g, q))>> :
        h \in Headers, d \in {"", "d"}, g \in Targets \cup {"", "other"}, q \in Edges}
    \cup {<<Entry(h[1], "PodStartup", h[2], h[3], PodStartup(s, l, u, c, m))>> :
        h \in {x \in Headers : x[1] = "a"}, s \in {"ns", "Bad"}, l \in {"key", "Bad"},
        u \in Edges, c \in Edges, m \in {0, 1}}
    \cup {<<Entry(h[1], "APIServer", h[2], h[3], APIServer("ns", "key", u, r, m))>> :
        h \in {x \in Headers : x[1] = "a"}, u \in Edges, r \in Edges, m \in {0, 1}}
    \cup {<<Entry(h[1], t, h[2], h[3], NoConfig)>> : h \in Headers,
        t \in Types \cup {"", "other"}}

\* Small valid and invalid ones, to be combined.
Parts ==
    {Entry(n, "DNS", 1, 2, DNS("d", g, 1)) : n \in {"a", "b"}, g \in {"CoreDNS", "LocalDNS"}}
    \cup {Entry(n, "PodStartup", 1, 3, PodStartup("ns", "key", 1, 1, m)) :
            n \in {"a", "b"}, m \in {1, 2}}
    \cup {Entry(n, "APIServer", 1, 2, APIServer(s, "key", 1, 1, m)) :
            n \in {"a", "b"}, s \in {"ns", "ns2"}, m \in {1, 2}}
    \cup {Entry("c", "AzurePolicy", 1, 1, NoConfig), Entry("d", "MetricsServer", 1, 1, NoConfig),
          Entry("d", "APIServer", 1, 1, NoConfig)}

AllConfigs ==
    {<<>>} \cup Singles \cup {<<p, q>> : p \in Parts, q \in Parts}
    \cup {<<p, q, r>> : p \in Parts, q \in Parts, r \in {x \in Parts : x.name # "a"}}

=============================================================================
