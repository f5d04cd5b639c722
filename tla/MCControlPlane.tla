-------------------------------- MODULE MCControlPlane --------------------------------
(***************************************************************************)
(* ControlPlane for model checking: the configurations that are there at   *)
(* first, merged in and put in their place agree, differ and nest.         *)
(***************************************************************************)
EXTENDS ControlPlane

Nested(k, v) == [l \in {"a"} |-> Object([m \in {k} |-> v])]
Flat(k, v)   == [l \in {k} |-> Leaf(v)]

MCStarts  == {Overlay(Flat("b", "on"), Nested("a", "on"))}
MCChanges == {Flat("a", "on"), Nested("a", "off"), Nested("b", "off"), Flat("b", "off")}
MCOthers  == {NoConfig, Nested("b", "on")}
================================================================================
