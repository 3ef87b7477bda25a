---------------------------- MODULE RPCMsgIdType ----------------------------
(***************************************************************************)
(* RPCMsgId of src/src/RPCMsgId.h: the JSON-RPC "id", meant as the sum     *)
(* type Null | Integer(i64) | String(text) of spec.md section 3.  An      *)
(* object is its three members typ, idata and sdata; each constructor,    *)
(* assignment and clear() is an action on one object, and the two hashes  *)
(* (std::hash, qHash) are operators on it.  Integers and texts are drawn  *)
(* from small sets; nothing here depends on their width.                  *)
(***************************************************************************)
EXTENDS Integers

CONSTANTS Ints,    \* int64_t values used
          Texts    \* QString values used ("" is the empty QString)

ASSUME Ints \subseteq Int /\ "" \in Texts

VARIABLES
    ids,     \* the objects: Objs -> [typ, idata, sdata]
    src      \* the value each object was last given, tagged as Hash tags it

vars == <<ids, src>>

Objs == {"x", "y"}

Types == {"Null", "Integer", "String"}

\* Mutant of Blank: idata without its {} initialiser, so an indeterminate
\* int64 (here -1) in a default-constructed id.
BlankUninit == [typ |-> "Null", idata |-> -1, sdata |-> ""]

\* The member initialisers: typ = Null, idata{}, sdata{}.
Blank == [typ |-> "Null", idata |-> 0, sdata |-> ""]

\* RPCMsgId() = default.
CtorDefault == Blank

\* RPCMsgId(int64_t).
CtorInt(i) == [Blank EXCEPT !.typ = "Integer", !.idata = i]

\* RPCMsgId(const QString &): typ is set to Integer.
CtorCopyText(s) == [Blank EXCEPT !.typ = "Integer", !.sdata = s]

\* RPCMsgId(QString &&).
CtorMoveText(s) == [Blank EXCEPT !.typ = "String", !.sdata = s]

\* operator=(int64_t): typ = Integer, sdata.clear(), idata = i.
AssignInt(r, i) == [r EXCEPT !.typ = "Integer", !.sdata = "", !.idata = i]

\* operator=(const QString &) and operator=(QString &&): typ = String,
\* sdata = s, idata = {}.
AssignText(r, s) == [r EXCEPT !.typ = "String", !.sdata = s, !.idata = 0]

\* clear(): *this = RPCMsgId().
Clear(r) == CtorDefault

\* std::hash<RPCMsgId> and qHash (seed 0): the hash of the member typ
\* selects, or 0 / the seed for Null.  A hash of a value is the value
\* tagged with its kind.
Hash(r) ==
    CASE r.typ = "String"  -> <<"s", r.sdata>>
      [] r.typ = "Integer" -> <<"i", r.idata>>
      [] r.typ = "Null"    -> <<"n", 0>>

-----------------------------------------------------------------------------

Init ==
    /\ ids = [o \in Objs |-> CtorDefault]
    /\ src = [o \in Objs |-> <<"n", 0>>]

\* Object o is replaced by a freshly constructed one (construction, or the
\* move assignment of a temporary), given null, an integer or a text.
Construct(o) ==
    /\ \/ /\ ids' = [ids EXCEPT ![o] = CtorDefault]
          /\ src' = [src EXCEPT ![o] = <<"n", 0>>]
       \/ \E i \in Ints :
          /\ ids' = [ids EXCEPT ![o] = CtorInt(i)]
          /\ src' = [src EXCEPT ![o] = <<"i", i>>]
       \/ \E s \in Texts :
          /\ ids' = [ids EXCEPT ![o] = CtorCopyText(s)]
          /\ src' = [src EXCEPT ![o] = <<"s", s>>]
       \/ \E s \in Texts :
          /\ ids' = [ids EXCEPT ![o] = CtorMoveText(s)]
          /\ src' = [src EXCEPT ![o] = <<"s", s>>]

AssignFromInt(o) ==
    /\ \E i \in Ints :
         /\ ids' = [ids EXCEPT ![o] = AssignInt(@, i)]
         /\ src' = [src EXCEPT ![o] = <<"i", i>>]

AssignFromText(o) ==
    /\ \E s \in Texts :
         /\ ids' = [ids EXCEPT ![o] = AssignText(@, s)]
         /\ src' = [src EXCEPT ![o] = <<"s", s>>]

ClearId(o) ==
    /\ ids' = [ids EXCEPT ![o] = Clear(@)]
    /\ src' = [src EXCEPT ![o] = <<"n", 0>>]

\* The defaulted copy assignment o = p: all three members are copied.
CopyAssign(o, p) ==
    /\ o # p
    /\ ids' = [ids EXCEPT ![o] = ids[p]]
    /\ src' = [src EXCEPT ![o] = src[p]]

Next ==
    \E o \in Objs :
        \/ Construct(o)
        \/ AssignFromInt(o)
        \/ AssignFromText(o)
        \/ ClearId(o)
        \/ \E p \in Objs : CopyAssign(o, p)

Spec == Init /\ [][Next]_vars

-----------------------------------------------------------------------------

TypeOK ==
    /\ ids \in [Objs -> [typ : Types, idata : Ints \cup {0}, sdata : Texts]]
    /\ src \in [Objs -> ({"n"} \X {0}) \cup ({"i"} \X Ints) \cup ({"s"} \X Texts)]

\* Every object hashes as the value it was given, so two ids built from
\* different values are told apart by a QHash or std::unordered_map keyed
\* on them (spec.md section 3: Null | Integer(i64) | String(text)).
HashIsValue == \A o \in Objs : Hash(ids[o]) = src[o]
=============================================================================
