------------------------------ MODULE MCLoader ------------------------------
EXTENDS Loader

CONSTANTS a1, a2, a3

MCRank == [a \in Addon |-> CASE a = a1 -> 1 [] a = a2 -> 2 [] a = a3 -> 3]

MCFiles == <<"boot", "main", "xml", "intoglobal">>

\* The kinds of addon by their flags: an addon of the client that loads into
\* the secure environment, such a one on demand, one that loads first, one on
\* demand, a user's on demand, a user's.
Kind == {"secure", "secureondemand", "first", "signedondemand", "ondemand", "user"}
Choices == [a \in Addon |-> CASE a = a1 -> {"secure", "user"}
                              [] a = a2 -> {"secureondemand", "signedondemand"}
                              [] a = a3 -> {"first", "ondemand"}]
Kinds == {k \in [Addon -> Kind] : \A a \in Addon : k[a] \in Choices[a]}
Of(kind, ks) == {a \in Addon : kind[a] \in ks}

\* a1 depends on any of the others, they on one or none, so that there are
\* cycles of two and of three; a2 has a LoadWith on a1.
Dependencies ==
  {d \in [Addon -> SUBSET Addon] :
     \A a \in Addon : a \notin d[a] /\ (a # a1 => Cardinality(d[a]) <= 1)}

MCToc ==
  {[deps |-> d, revwiths |-> [a \in Addon |-> IF a = a1 THEN {a2} ELSE {}],
    signed |-> Of(k, {"secure", "secureondemand", "first", "signedondemand"}),
    onlysecure |-> Of(k, {"secure", "secureondemand"}),
    loadfirst |-> Of(k, {"secure", "secureondemand", "first"}),
    loadondemand |-> Of(k, {"ondemand", "signedondemand", "secureondemand"})] :
     d \in Dependencies, k \in Kinds}

MCInit ==
  /\ toc \in MCToc
  /\ loadattempted = {} /\ loaded = {} /\ secdeploadattempted = {} /\ secdeploaded = {}
  /\ bootstrapping = {} /\ bootstrapped = {}
  /\ stack = <<>> /\ phase = "loadfirst" /\ left = Addon
  /\ calls = 0 /\ ran = {} /\ again = {}

MCSpec == MCInit /\ [][Next]_vars /\ WF_vars(LoaderStep)
=============================================================================
