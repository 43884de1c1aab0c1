----------------------------- MODULE MCFilters -----------------------------
(* Two threads and a small chain: "wire" has a callback that is called while it
   is inactive, "trace" only those it wants when active, and only "invoke"
   catches "get". *)
EXTENDS Filters
CONSTANTS t1, t2

MCThread == {t1, t2}
MCFilterSet == {"trace", "wire", "invoke"}
MCFunction == {"draw", "swap", "get"}
On(f) == [function |-> f, inactive |-> FALSE]
Always(f) == [function |-> f, inactive |-> TRUE]
MCLoaded == <<
    [name |-> "trace", parent |-> "trace", callbacks |-> <<On("draw")>>],
    [name |-> "invoke", parent |-> "invoke", callbacks |-> <<On("draw"), On("swap"), On("get")>>],
    [name |-> "wire_post", parent |-> "wire", callbacks |-> <<On("draw"), Always("swap")>>] >>
MCKeyed == {"trace", "wire"}
=============================================================================
