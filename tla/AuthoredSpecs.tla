---------------------------- MODULE AuthoredSpecs ----------------------------
(***************************************************************************)
(* The specs SpecRun is examined on: three agents tied to one another in   *)
(* every way, a reader behind every kind of source, nested templates, and  *)
(* one knob at each side of each of its bounds.                            *)
(***************************************************************************)
EXTENDS Integers

CONSTANT Nil

Val(t, n) == [t |-> t, n |-> n]
With(f, more) ==
    [x \in DOMAIN f \cup DOMAIN more |-> IF x \in DOMAIN more THEN more[x] ELSE f[x]]

MinimalFields ==
    [agent |-> [prompt |-> Val("text", 1)],
     parallel |-> [branches |-> Val("list", 2)],
     pipeline |-> [items |-> Val("list", 2), stages |-> Val("list", 1)],
     workflow |-> [ref |-> Val("text", 1)],
     completeness_check |-> [task |-> Val("text", 1), results |-> Val("text", 1)],
     gate |-> [body |-> Val("object", 1), validator |-> Val("text", 1)],
     checkpoint |-> [prompt |-> Val("text", 1)],
     loop_until_dry |-> [body |-> Val("object", 1), stop_after_k_empty |-> Val("num", 1),
                         max_rounds |-> Val("num", 1)]]

Ref(root, path) == [root |-> root, path |-> path, plain |-> TRUE]
Node(id, type, reads) ==
    [id |-> id, type |-> type, reads |-> reads, over |-> Nil, deps |-> {},
     fields |-> MinimalFields[type], entry |-> <<>>, nullable |-> FALSE, child |-> Nil]
Insist(n) == [n EXCEPT !.fields = With(@, [required |-> Val("bool", 1)])]
Authored(nodes) == [named |-> TRUE, schemasOK |-> TRUE, schemas |-> {1}, nodes |-> nodes]

Ties == {<<"none", "a">>} \cup ({"reads", "after"} \X {"a", "b", "c", "ghost"})
Tied(id, t) ==
    [Node(id, "agent", IF t[1] = "reads" THEN {Ref(t[2], <<>>)} ELSE {})
       EXCEPT !.deps = IF t[1] = "after" THEN {t[2]} ELSE {}]
Shaped == {Authored(<<Insist(Tied("a", x)), Tied("b", y), Tied("c", z)>>) : x, y, z \in Ties}

Sources ==
    {Node("a", "parallel", {}), Node("a", "pipeline", {}),
     [Node("a", "pipeline", {}) EXCEPT !.nullable = TRUE],
     Node("a", "completeness_check", {}), Insist(Node("a", "completeness_check", {}))}
Readers(ref) ==
    {Node("b", "agent", {ref}), Node("b", "parallel", {ref}),
     [Node("b", "parallel", {}) EXCEPT !.over = ref],
     [Node("b", "pipeline", {Ref("item", <<>>)}) EXCEPT !.over = ref],
     Node("b", "pipeline", {ref}), Insist(Node("b", "gate", {ref}))}
Whole == Ref("a", <<>>)
Element == Ref("a", <<"0">>)
Holed == {Authored(<<s, r>>) : s \in Sources, r \in Readers(Whole) \cup Readers(Element)}

Template == Authored(<<Insist(Node("c", "agent", {Ref("args", <<"x">>)})),
                       Node("d", "parallel", {Ref("c", <<>>)})>>)
Circular == Authored(<<Tied("a", <<"reads", "a">>)>>)
Deep == Authored(<<[Node("c", "workflow", {}) EXCEPT !.child = <<Template>>]>>)
Calling(child, ref) == [Node("b", "workflow", {}) EXCEPT !.child = child, !.over = ref]
Nesting ==
    {Authored(<<Node("a", "parallel", {}), Calling(child, ref), Node("e", "agent", {Ref("b", path)})>>) :
        child \in {Nil, <<Template>>, <<Deep>>, <<Circular>>}, ref \in {Nil, Whole, Element},
        path \in {<<>>, <<"d">>, <<"d", "0">>}}

Lone(type, more) == Authored(<<[Node("a", type, {}) EXCEPT !.fields = With(@, more)]>>)
Written ==
    {Val("num", n) : n \in -1 .. 3} \cup {Val("text", n) : n \in 0 .. 2}
      \cup {Val("null", 0), Val("object", 1), Val("bool", 1)}
OneKnob ==
    UNION {{Lone("agent", [timeout |-> v]), Lone("agent", [retries |-> v]),
            Lone("agent", [max_iterations |-> v]), Lone("agent", [schema |-> v]),
            Lone("agent", [schema_ref |-> v]), Lone("gate", [attempts |-> v]),
            Lone("loop_until_dry", [budget |-> v]), Lone("loop_until_dry", [max_rounds |-> v])} :
               v \in Written}
Gated ==
    {Lone("checkpoint", more) : more \in
        {[accept |-> Val("list", 0)], [accept |-> Val("list", 1), default |-> Val("null", 0)],
         [on_reject |-> Val("policy", 1)], [accept |-> Val("list", 1), on_reject |-> Val("policy", 1)],
         [accept |-> Val("list", 1), on_reject |-> Val("text", 1)]}}
Entries ==
    {Authored(<<[Node("a", type, {}) EXCEPT !.entry = e]>>) :
        type \in {"gate", "loop_until_dry", "pipeline", "parallel"},
        e \in {[model |-> Val("text", 1)], [id |-> Val("text", 1), type |-> Val("agent", 1)],
               [schema_ref |-> Val("text", 2)], [max_iterations |-> Val("num", 3)],
               [schema |-> Val("object", 1), schema_ref |-> Val("text", 1)]}}

Headless ==
    {[Authored(<<Node("a", "agent", {})>>) EXCEPT !.named = named, !.schemasOK = ~named] :
        named \in BOOLEAN}

AllSpecs == Headless \cup Shaped \cup Holed \cup Nesting \cup OneKnob \cup Gated \cup Entries
    \cup {Lone("agent", [label |-> Val("text", 1)])}
=============================================================================
