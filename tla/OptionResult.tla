---------------------------- MODULE OptionResult ----------------------------
(***************************************************************************)
(* What option<T> (include/crasy/option.hpp) and result<T, E> (result.hpp) *)
(* hold, as values: an option is a sequence of at most one value, a result *)
(* a pair of a tag and what it holds.  Copies, moves and the overloads for *)
(* the kinds of references come to the same value.                         *)
(***************************************************************************)
EXTENDS Sequences

Nullopt == <<>>
Emplace(v) == <<v>>
HasValue(o) == o # Nullopt
Deref(o) == o[1]

Ok(v) == <<"ok", v>>
Err(e) == <<"err", e>>
IsOk(r) == r[1] = "ok"
Get(r) == r[2]                   \* ok() or err(), by the tag

\* What `return r.propagate()` makes of an error in a function that returns
\* another type of result.
Propagate(r) == Err(Get(r))

Options(V) == {Nullopt} \cup {Emplace(v) : v \in V}
Results(V, E) == {Ok(v) : v \in V} \cup {Err(e) : e \in E}
=============================================================================
