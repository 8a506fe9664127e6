------------------------------ MODULE MCPlanning ------------------------------
(* Answers of one or two calls, of every kind that the parsers tell apart. *)
EXTENDS Planning

Call(skill, args) == [skill |-> skill, args |-> args]
Good == Call("known", "good")

Singles == {Good, Call("hidden", "good"), Call("unknown", "good"), Call("known", "wrong"),
            Call("known", "broken"), Call("known", "value")}
Texts == {<<>>, <<Call("known", "broken")>>, <<Call("unknown", "good")>>}

MCReplies == [calls : {<<call>> : call \in Singles} \union {<<Good, call>> : call \in Singles}, text : {<<>>}]
               \union [calls : {<<>>}, text : Texts]
MCSubstitute == {<<Good>>, <<Good, Call("hidden", "good")>>}
=============================================================================
