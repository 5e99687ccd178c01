---------------------------- MODULE ObjectCompare ----------------------------
(***************************************************************************)
(* gg_obj_eq (src/src/object_compare.c): two objects walked in step, one      *)
(* action per turn of the loop.  The objects are only read, so they are       *)
(* values here (Objects!Value).                                               *)
(***************************************************************************)
EXTENDS Objects

CONSTANTS
    GG_MAX_OBJECT_DEPTH,
    GG_MAX_OBJECT_SUBOBJECTS,
    Pairs           \* the pairs of values compared

VARIABLES
    lhs, rhs,       \* the arguments
    levels,         \* lhs_state and rhs_objs, the current level last
    subobjects,
    ret             \* "running", "equal" or "different"

vars == <<lhs, rhs, levels, subobjects, ret>>

Level(l, r) == [l |-> l, r |-> r, state |-> "LEVEL_DEFAULT", elem |-> 0]

Init ==
    /\ \E p \in Pairs : lhs = p[1] /\ rhs = p[2]
    /\ levels = <<Level(lhs, rhs)>>
    /\ subobjects = 0
    /\ ret = "running"

Top == Len(levels)
Cur == levels[Top]

\* print_state only logs.
Different ==
    /\ ret' = "different"
    /\ UNCHANGED <<levels, subobjects>>

\* The current pair is finished: return, or go on with the parents.
Pop ==
    /\ IF Top = 1 THEN ret' = "equal" /\ UNCHANGED levels
       ELSE levels' = SubSeq(levels, 1, Top - 1) /\ UNCHANGED ret
    /\ UNCHANGED subobjects

\* bool_eq, int_eq, buf_eq.
CompareScalars ==
    /\ ret = "running" /\ Cur.state = "LEVEL_DEFAULT"
    /\ Cur.l[1] # Cur.r[1] \/ ~IsContainer(Cur.l)
    /\ IF Cur.l[1] # Cur.r[1] THEN Different
       ELSE IF Cur.l[2] = Cur.r[2] THEN Pop
       ELSE Different
    /\ UNCHANGED <<lhs, rhs>>

\* Mutant: the shorter container may be a prefix of the longer one.
EnterContainers_NoLength ==
    /\ ret = "running" /\ Cur.state = "LEVEL_DEFAULT"
    /\ Cur.l[1] = Cur.r[1] /\ IsContainer(Cur.l)
    /\ LET weight == IF Cur.l[1] = "map" THEN 2 ELSE 1
           len == Len(Cur.l[2])
       IN  IF len > (GG_MAX_OBJECT_SUBOBJECTS - subobjects) \div weight \/ len > Len(Cur.r[2])
           THEN Different
           ELSE /\ levels' = [levels EXCEPT ![Top].state =
                                 IF Cur.l[1] = "map" THEN "LEVEL_MAP" ELSE "LEVEL_LIST"]
                /\ subobjects' = subobjects + weight * len
                /\ UNCHANGED ret
    /\ UNCHANGED <<lhs, rhs>>

EnterContainers ==
    /\ ret = "running" /\ Cur.state = "LEVEL_DEFAULT"
    /\ Cur.l[1] = Cur.r[1] /\ IsContainer(Cur.l)
    /\ LET weight == IF Cur.l[1] = "map" THEN 2 ELSE 1
           len == Len(Cur.l[2])
       IN  IF len > (GG_MAX_OBJECT_SUBOBJECTS - subobjects) \div weight \/ len # Len(Cur.r[2])
           THEN Different
           ELSE /\ levels' = [levels EXCEPT ![Top].state =
                                 IF Cur.l[1] = "map" THEN "LEVEL_MAP" ELSE "LEVEL_LIST"]
                /\ subobjects' = subobjects + weight * len
                /\ UNCHANGED ret
    /\ UNCHANGED <<lhs, rhs>>

\* The next pair of elements; keys are compared position by position.
CompareElements ==
    /\ ret = "running" /\ Cur.state # "LEVEL_DEFAULT"
    /\ LET i == Cur.elem + 1
       IN  IF Cur.elem = Len(Cur.l[2]) THEN Pop
           ELSE IF \/ Cur.state = "LEVEL_MAP" /\ Cur.l[2][i][1] # Cur.r[2][i][1]
                   \/ Top = GG_MAX_OBJECT_DEPTH
                THEN Different
           ELSE /\ levels' = Append([levels EXCEPT ![Top].elem = i],
                                    Level(Children(Cur.l)[i], Children(Cur.r)[i]))
                /\ UNCHANGED <<subobjects, ret>>
    /\ UNCHANGED <<lhs, rhs>>

Next == CompareScalars \/ EnterContainers \/ CompareElements

Spec == Init /\ [][Next]_vars

-----------------------------------------------------------------------------
TooLarge(v) == Depth(v) > GG_MAX_OBJECT_DEPTH \/ Subobjects(v) > GG_MAX_OBJECT_SUBOBJECTS

\* gg_obj_eq is equality of values on the objects within the limits of object.h,
\* map pairs in order, and an object beyond the limits equals nothing: the shared
\* iteration state never runs past the end of the right-hand side.
EqIsValueEquality ==
    ret # "running" => (ret = "equal") = (lhs = rhs /\ ~TooLarge(lhs))

=============================================================================
