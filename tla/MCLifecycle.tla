----------------------------- MODULE MCLifecycle ----------------------------
(* Lifecycle with a config that maps two keys, one of them without a code; a  *)
(* reload maps them again.                                                    *)
EXTENDS Lifecycle

MCNone == <<>>
MCScript == <<"f2", "a">>
MCOneKey == <<"f2">>
=============================================================================
