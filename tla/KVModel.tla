------------------------------ MODULE KVModel -------------------------------
(* The sequential specification of one key that the tests give to the        *)
(* linearizability checker: src/src/models1/kv.go.  A key that is not there  *)
(* has version 0 and the empty value.                                        *)
EXTENDS Naturals

KvInit(empty) == [value |-> empty, version |-> 0]

Step(st, inp, out) ==
    IF inp.op = "Get"
    THEN [ok |-> out.value = st.value, state |-> st]
    ELSE IF st.version = inp.version
         THEN [ok |-> out.err \in {"OK", "ErrMaybe"},
               state |-> [value |-> inp.value, version |-> st.version + 1]]
         ELSE [ok |-> out.err \in {"ErrVersion", "ErrMaybe"}, state |-> st]
=============================================================================
