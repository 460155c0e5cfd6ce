------------------------------ MODULE MCMemory ------------------------------
(***************************************************************************)
(* A memory index of two names, with texts longer than one of the limits.  *)
(***************************************************************************)
EXTENDS Memory

Long == <<"a", "b">>
Short == <<"b">>
LongOrShort == {Long, Short}

\* The limit changes at run time where there are only texts; in a hybrid index
\* COPY alone indexes beyond it.
LimitChanges == [SEARCH |-> {1, 2}, VECTOR |-> {1}, HYBRID |-> {1}]

Document(id, text, vector, ttl, cond) ==
  [id |-> id, text |-> text, vector |-> vector, ttl |-> ttl, cond |-> cond]

\* Every id with and without a vector and a TTL; one request of each kind that
\* is refused for what it is.
EachKind ==
  LET ttls == Ttls \cup {Never}
  IN  {Document(id, text, None, ttl, "any") : id \in Ids \cup {Unnamed}, text \in Texts, ttl \in ttls}
      \cup {Document(id, Long, "v", ttl, "any") : id \in Ids \cup {Unnamed}, ttl \in ttls}
      \cup {Document(id, Short, "w", Never, "any") : id \in Ids}
      \cup {Document(1, Short, "w", Never, cond) : cond \in {"nx", "xx"}}
      \cup {Document(1, Long, Unfit, Never, "any")}

=============================================================================
