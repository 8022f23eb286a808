-------------------------- MODULE MCServiceCreation --------------------------
(* Templates of applications on a box, varied a few aspects at a time. *)
EXTENDS ServiceCreation, TLC

CONSTANTS s1, s2, s3, s4

MCServices == {s1, s2, s3, s4}
Symmetry == Permutations(MCServices)

MCNodeParent ==
  [Root |-> None, Server |-> "Root", Box |-> "Server", Shelf |-> "Root", App |-> "Root"]
MCCapabilityParent == [Feature |-> None, Container |-> None, BigContainer |-> "Container"]
MCNodeRole == [Root |-> None, Server |-> "host", Box |-> None, Shelf |-> None, App |-> None]
MCCapabilityRole == [Feature |-> "feature", Container |-> "host", BigContainer |-> None]

Asks(name, node, capability, occurrences) ==
  [name |-> name, node |-> node, capability |-> capability, occurrences |-> occurrences]
Own(name, node, capability, filter) ==
  [name |-> name, node |-> node, capability |-> capability, filter |-> filter]
Offers(type, sources, occurrences) ==
  [type |-> type, sources |-> sources, occurrences |-> occurrences]
Nothing == [name \in {} |-> None]

\* Applications need a box, and a third template may be there: a shelf that offers room
\* but is no host, or a node that applications are linked to.
Presentation(o) ==
  [requirements |->
     [Root |-> <<>>,
      Server |-> <<>>,
      Box |-> <<>>,
      Shelf |-> <<Asks("host", None, "Container", <<0, 1>>)>>,
      App |-> <<Asks("link", None, "Feature", <<0, 1>>), Asks("host", o.node, "Container", o.needed)>>],
   capabilities |->
     [Root |-> [feature |-> Offers("Feature", None, None)],
      Server |-> [slot |-> Offers("Container", o.sources, o.occurrences)],
      Box |-> IF o.override = None THEN Nothing ELSE [slot |-> Offers(o.override, None, <<0, 9>>)],
      Shelf |-> [slot |-> Offers("Container", None, None)],
      App |-> Nothing],
   sources |-> [Feature |-> None, Container |-> o.typeSources, BigContainer |-> None],
   templates |->
     [t \in {"app", "box"} \cup (IF o.third = None THEN {} ELSE {"third"}) |->
        CASE t = "app" -> [type |-> "App", requirements |-> o.own, instances |-> <<0, o.apps, 2>>]
          [] t = "box" -> [type |-> "Box", requirements |-> <<>>, instances |-> <<0, o.boxes, 2>>]
          [] t = "third" -> [type |-> o.third, requirements |-> o.thirdOwn, instances |-> <<0, 1, 1>>]]]

Base ==
  [node |-> "Server", needed |-> None, sources |-> None, occurrences |-> None,
   override |-> None, typeSources |-> None, own |-> <<>>, apps |-> 1, boxes |-> 1,
   third |-> None, thirdOwn |-> <<>>]

\* Room for as many, assignments of every form, valid sources, and ways to a host.
Rooms ==
  {[Base EXCEPT !.occurrences = range, !.boxes = boxes, !.own = own]
     : range \in {<<0, 1>>, <<1, 2>>, <<0, 2>>, <<1, None>>}, boxes \in 0 .. 1,
       own \in {<<>>, <<Own("host", "box", "slot", None)>>}} \cup
  {[Base EXCEPT !.occurrences = range, !.apps = 2, !.boxes = boxes]
     : range \in {<<0, 1>>, <<1, 2>>}, boxes \in 0 .. 2} \cup
  {[Base EXCEPT !.occurrences = <<0, 1>>, !.boxes = 2]} \cup
  {[Base EXCEPT !.apps = 3, !.occurrences = <<0, 3>>]}

Assignments ==
  {<<>>,
   <<Own("host", "box", None, None)>>,
   <<Own("host", "box", "slot", None)>>,
   <<Own("host", None, "BigContainer", None)>>,
   <<Own("host", "Box", None, {"box"})>>,
   <<Own("host", "Server", None, {"app"})>>,
   <<Own("host", "box", None, None), Own("host", "Box", None, None)>>,
   <<Own("link", "app", "feature", None)>>,
   <<Own("room", "box", None, None)>>}

Assigned ==
  {[Base EXCEPT !.own = own, !.override = override, !.needed = needed]
     : own \in Assignments, override \in {None, "BigContainer", "Feature"},
       needed \in {None, <<1, 2>>}}

Sources ==
  {[Base EXCEPT !.sources = sources, !.typeSources = typeSources]
     : sources \in {None, {}, {"Root", "App"}, {"App", "Server"}}, typeSources \in {None, {"Server"}}}

Ways ==
  {[Base EXCEPT !.node = None, !.third = "Shelf", !.thirdOwn = thirdOwn, !.own = own]
     : thirdOwn \in {<<>>, <<Own("host", "box", None, None)>>, <<Own("host", "third", None, None)>>},
       own \in {<<>>, <<Own("host", "third", None, None)>>}} \cup
  {[Base EXCEPT !.third = "Root", !.own = <<Own("link", "third", None, None)>>]}

MCPresentations == {Presentation(o) : o \in Rooms \cup Assigned \cup Sources \cup Ways}

\* Bound: four services of the template with two places, where one may be stored, one
\* rejected, one stored meanwhile and one continue the rejected one; three of the others.
Crowded == Presentation([Base EXCEPT !.occurrences = <<0, 2>>])
FewServices == presentation = Crowded \/ \E s \in Services : stage[s] = "none"
=============================================================================
