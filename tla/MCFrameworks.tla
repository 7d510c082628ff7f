----------------------------- MODULE MCFrameworks -----------------------------
(* A framework that gets a second version, and one that only the second    *)
(* release knows.                                                          *)
EXTENDS Frameworks, TLC

CONSTANTS t1, t2, a1

Versioned == "csf1" :> "1.1" @@ "csf2" :> "2.0" @@ "soc" :> "2017"

Defined == "csf1" :> {<<"CSF 1.1", "p">>} @@ "csf2" :> {<<"CSF 2.0", "p">>}
           @@ "soc" :> {<<"SOC", "p">>}

Releases ==
  << [CSF |-> <<"csf1">>, SOC |-> <<>>],
     [CSF |-> <<"csf1", "csf2">>, SOC |-> <<"soc">>] >>

Reviewed ==
  << [a |-> <<"CSF 1.1", "p">>, b |-> <<"CSF 2.0", "p">>],
     [a |-> <<"SOC", "p">>, b |-> <<"CSF 2.0", "p">>] >>

Symmetric == Permutations(Thread)

=============================================================================
