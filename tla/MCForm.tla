--------------------------------- MODULE MCForm ---------------------------------
(* A small instance of Form for TLC: up to two parts, fields before files. *)
EXTENDS Form

A(part, args) == [part |-> part, args |-> args]
Field(args) == <<A("field", args), A("field", "good")>>
File(args) == <<A("file", args), A("file", "good"), A("file", "good")>>
Empty == <<A("file", "good")>>

MCForms == {<< >>, Field("good"), Field("bad"), File("good"), File("bad"),
            Field("good") \o File("good"), Field("good") \o File("bad"),
            Empty \o File("good"), Field("good") \o Field("bad")}
MCMaxes == -1 .. 7
=============================================================================
