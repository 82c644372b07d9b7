------------------------------- MODULE MCNodeJson -------------------------------
EXTENDS NodeJson

MCData == "x"

\* Sequences of at most two of S.
UpTo2(S) == {<<>>} \cup {<<a>> : a \in S} \cup {<<a, b>> : a, b \in S}

\* The trees of class c with children from the set children.
TreesOf(c, children) ==
  LET held(classes) == {NullNode} \cup {t \in children : t.class \in classes}
      n == MemberCount(c)
      pools == [i \in 1..n |-> held(Class[c].members[i])]
      members == CASE n = 0 -> {<<>>}
                   [] n = 1 -> {<<a>> : a \in pools[1]}
                   [] n = 2 -> {<<a, b>> : a \in pools[1], b \in pools[2]}
                   [] n = 3 -> {<<a, b, d>> : a \in pools[1], b \in pools[2], d \in pools[3]}
                   [] n = 4 -> {<<a, b, d, e>> : a \in pools[1], b \in pools[2],
                                                 d \in pools[3], e \in pools[4]}
      data == IF Carries(c) THEN MCData ELSE "none"
  IN {Node(c, data, v, m) : v \in IF HasVector(c) THEN UpTo2(held(Class[c].vector)) ELSE {<<>>},
                            m \in members}

Shallow == UNION {TreesOf(c, {}) : c \in ClassNames}
Bare == {t \in Shallow : t.vector = <<>>}
TwoDeep == UNION {TreesOf(c, Bare) : c \in ClassNames \ {"TernaryOperator"}}
             \cup TreesOf("TernaryOperator", {t \in Bare : t.class \in {"Literal", "Return"}})

\* Every tree of two levels, and each again as a statement or a value in a program.
MCTrees ==
  TwoDeep
  \cup {Node("Function", MCData, <<>>, <<Node("Block", "none", <<t>>, <<>>)>>) :
          t \in {u \in TwoDeep : u.class \in Statements}}
  \cup {Node("Return", "none", <<>>, <<t>>) : t \in {u \in TwoDeep : u.class \in Expressions}}

---------------------------------------------------------------------------
\* JSON that no toJson() wrote: fields that are missing, null, texts, or of another
\* class than they should be, without a datum, a vector that is no array but an object
\* of nodes (with a type of its own or none), an empty object or a text.
Written == {ToJson(t) : t \in Bare} \ {Failure}
Something == {JObject("Variable", [key \in {"data"} |-> JData(MCData)]),
              JObject("FunctionParameter", [key \in {"data"} |-> JData(MCData)]),
              JObject("Literal", [key \in {"data"} |-> JData(MCData)]),
              JObject("Literal", <<>>),
              JObject("Block", <<>>),
              JObject("Return", [key \in {"value"} |-> JText]),
              JObject("TernaryExpression", <<>>),
              JObject("none", <<>>),
              JObject("none", [key \in {"data"} |-> JData(MCData)]),
              JNull, JText}

KeysOf(c) == {MemberKeys(c)[i] : i \in Indices(MemberKeys(c))}
               \cup (IF HasVector(c) THEN {VectorKey(c)} ELSE {})

\* Objects of one or two nodes, as they may stand for an array.
ObjectsOfNodes ==
  {JObject(t, [key \in {"body"} |-> s]) : t \in {"none", "Block"}, s \in Something \cup Written}
  \cup {JObject("none", f) : f \in [{"left", "right"} -> Something \cup Written]}

FieldsOf(c) ==
  UNION {[keys -> Something] : keys \in SUBSET KeysOf(c)}

MCDocuments ==
  LET basic(c) == IF c \in {"For", "If", "TernaryOperator"}
                  THEN UNION {[keys -> {s \in Something : s.type \in {"Literal", "Block", "Return"}}]
                              : keys \in SUBSET KeysOf(c)}
                  ELSE FieldsOf(c)
      arrays(c) == IF HasVector(c)
                   THEN {[key \in {VectorKey(c)} |-> v] :
                           v \in {JArray(s) : s \in UpTo2(Something \cup Written)}
                                   \cup ObjectsOfNodes}
                   ELSE {}
      with(f, d) == [key \in DOMAIN f \cup {"data"} |-> IF key = "data" THEN d ELSE f[key]]
  IN Something
     \cup UNION {{JObject(c, f) : f \in basic(c) \cup arrays(c)} : c \in ClassNames}
     \cup UNION {{JObject(c, with(f, JData(MCData))) : f \in basic(c) \cup arrays(c)}
                 : c \in {k \in ClassNames : Carries(k)}}
=============================================================================
