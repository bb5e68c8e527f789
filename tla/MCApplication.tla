---------------------------- MODULE MCApplication ----------------------------
(***************************************************************************)
(* Application for TLC: three services of three features (and an           *)
(* implementation nobody asks for), every graph in which a service         *)
(* requires at most one other or a missing one, and a service with two     *)
(* requirements.                                                           *)
(***************************************************************************)
EXTENDS Application

CONSTANTS db, tm, usr, late

MCServices == {db, tm, usr, late}
MCFeature == [s \in MCServices |->
                CASE s = db -> 1 [] s = tm -> 2 [] s = usr -> 3 [] s = late -> 3]
MCAttached == <<db, tm, usr>>

Needs(f) == [feature |-> f, implementation |-> Whatever]
NeedsImpl(s) == [feature |-> MCFeature[s], implementation |-> s]

(* Nothing, one feature (0 has no service), or one implementation of it. *)
Declared == {<<>>} \union {<<Needs(f)>> : f \in 0 .. 3} \union {<<NeedsImpl(late)>>}

MCGraphs ==
    {[s \in MCServices |->
        CASE s = db -> g[1] [] s = tm -> g[2] [] s = usr -> g[3] [] s = late -> g[4]] :
     g \in (Declared \X Declared \X Declared \X {<<>>, <<Needs(1)>>})
           \union {<< <<>>, <<Needs(1)>>, <<Needs(1), Needs(2)>>, <<Needs(3)>> >>}}

(* No requirement, a chain against the order of the features, a loop. *)
MCFewGraphs ==
    {[s \in MCServices |-> <<>>],
     [s \in MCServices |->
        CASE s = db -> <<Needs(3)>> [] s = tm -> <<>> [] s = usr -> <<Needs(2)>>
          [] s = late -> <<Needs(1)>>],
     [s \in MCServices |->
        CASE s = db -> <<Needs(2)>> [] s = tm -> <<Needs(1)>> [] OTHER -> <<>>]}

With(others, graphs) ==
    {[threads |-> {Main} \union others, graph |-> g] : g \in graphs}

(* Every graph with a service attached late; a few with threads that stop. *)
MCStartAndStop == With(Attachers, MCGraphs) \union With(Stoppers, MCFewGraphs)
MCFew == With(Attachers \union Stoppers, MCFewGraphs)
=============================================================================
