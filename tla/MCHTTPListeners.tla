-------------------------- MODULE MCHTTPListeners --------------------------
(* HTTPListeners with two of four bytes, dictionaries that are full after  *)
(* a few words, and trees with and without all of the bytes.               *)
EXTENDS HTTPListeners

CONSTANT MaxCount   \* bound: how often a byte was counted

TheTypes == {"html"}
TheExported == {"html"}
TheDicts == {"d1", "d2"}

\* One response of each framing, fast, slow and late, exported and not
Answer(type, latency, framing) ==
    [type |-> type, latency |-> latency, isHead |-> FALSE, framing |-> framing]

TheResponses ==
    {Answer("html", 0, "sized"), Answer("html", 1, "none"), Answer("html", 3, "close"),
     Answer(Unknown, 2, "sized"),
     [type |-> "html", latency |-> 0, isHead |-> TRUE, framing |-> "none"]}

Counters(zeros, ones) == [b \in Bytes \cup {EOF} |-> CASE b = 0 -> zeros [] b = 1 -> ones
                                                      [] b = EOF -> 1 [] OTHER -> 0]

Text(dict, text, times) == [dict |-> dict, text |-> text, times |-> times]

Config(texts, thePair, counters, from) ==
    [texts |-> texts, pair |-> thePair, tree |-> counters, source |-> from]

Serving ==
    {Config(<<>>, "d1", Counters(1, 3), "folder"),
     Config(<<Text("d1", <<0, 0, 0, 0, 0, 0, 0, 0, 1>>, 1)>>, "d1", Counters(2, 0), "net"),
     Config(<<Text("d1", <<0, 1, 0>>, 3)>>, "d1", Counters(1, 1), "folder"),
     Config(<<Text("d1", <<0, 0, 1>>, 1), Text("d2", <<1, 1, 0>>, 1)>>, "d1", Counters(3, 1), "net"),
     Config(<<Text("d1", <<0, 1>>, 2), Text("d2", <<0, 1>>, 3)>>, "d2", Counters(1, 3), "folder")}

\* What counters append() and setCounterValues() leave: the end has its one.
\* With five symbols the third and the fourth pair are taken from nodes that were
\* put together, equal to each other or to leaves.
AnyCounters == {c \in [Bytes \cup {EOF} -> 0 .. MaxCount] : c[EOF] = 1}

TheConfigs == Serving \cup {Config(<<>>, "d1", c, "folder") : c \in AnyCounters}

\* bound: responses come in few configurations, of the other ones there is only
\* the tree, and payload is zeros and ones
MCNext ==
    /\ \E c \in Serving : tree = c.tree
    /\ Next
    /\ Range(payload') \subseteq {0, 1}

MCSpec == Init /\ [][MCNext]_vars

B == INSTANCE HuffmanBuilder

\* Whatever was counted, how many counts are equal and in whatever order nodes
\* that were put together compete with others and with each other: the tree that
\* HuffmanBuilder::getTree() makes for HuffmanCompress is an optimal one.
HuffmanIsOptimal == B!IsOptimal(tree)

=============================================================================
