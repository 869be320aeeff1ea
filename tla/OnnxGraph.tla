------------------------------- MODULE OnnxGraph -------------------------------
(***************************************************************************)
(* The graph a model is loaded into (graph.rs).                            *)
(*                                                                         *)
(* A graph is [nodes, initializers, inputs, outputs]; what it takes in and  *)
(* gives out are sets of names.                                            *)
(* A node is [domain, op, inputs, outputs, attrs], an absent input "".  The *)
(* two branches of an If are abstracted to the names they read from the    *)
(* graph around them and to whether all their nodes are implemented: the   *)
(* attribute "branches", [reads, runs].                                    *)
(***************************************************************************)
EXTENDS HostOps

Attr(node, name) == IF name \in DOMAIN node.attrs THEN node.attrs[name] ELSE <<>>
Has(node, name)  == name \in DOMAIN node.attrs
Input(node, k)   == IF k <= Len(node.inputs) THEN node.inputs[k] ELSE ""
Setting(node, name, default) == IF Has(node, name) THEN node.attrs[name] ELSE default

\* What Constant nodes hold, under the names of their outputs.
ConstantOutputs(nodes) ==
  LET given == {i \in DOMAIN nodes :
                  nodes[i].op = "Constant" /\ nodes[i].domain = "" /\ Has(nodes[i], "value")}
  IN [name \in {nodes[i].outputs[1] : i \in given} |->
        nodes[CHOOSE i \in given : nodes[i].outputs[1] = name].attrs.value]

\* The entries of f, and those of g under other names.
Atop(f, g) == [name \in DOMAIN f \cup DOMAIN g |-> IF name \in DOMAIN f THEN f[name] ELSE g[name]]

Constants(ir) == Atop(ir.initializers, ConstantOutputs(ir.nodes))

=============================================================================
