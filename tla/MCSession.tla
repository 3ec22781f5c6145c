------------------------------ MODULE MCSession ------------------------------
(* Session for TLC: words of four bits and the files that make a difference. *)
EXTENDS Session

MCFiles == {"plain", "short", "long", "lib", "mini", "loop", "bad", "orphan",
            "missing"}

Plain == [opens |-> TRUE, tags |-> "none", lib |-> None, compare |-> FALSE, fifo |-> FALSE,
          length |-> NoTag, fade |-> NoTag, ram |-> 8]

(* Without tags; with a length; with a long one and a flag; a library, and  *)
(* a file that uses it; one that is its own library; one that cannot be     *)
(* loaded, and one of which the library cannot.                             *)
MCContent ==
    [f \in MCFiles |->
        CASE f = "plain" -> Plain
          [] f = "short" -> [Plain EXCEPT !.tags = "good", !.length = 2]
          [] f = "long" -> [Plain EXCEPT !.tags = "good", !.length = 5, !.compare = TRUE,
                                         !.fade = 3]
          [] f = "lib" -> [Plain EXCEPT !.tags = "good", !.length = 4, !.compare = TRUE,
                                        !.ram = 4]
          [] f = "mini" -> [Plain EXCEPT !.tags = "good", !.lib = "lib", !.fifo = TRUE,
                                         !.length = 6, !.ram = 0]
          [] f = "loop" -> [Plain EXCEPT !.tags = "good", !.lib = "loop"]
          [] f = "bad" -> [Plain EXCEPT !.tags = "bad"]
          [] f = "orphan" -> [Plain EXCEPT !.tags = "good", !.lib = "missing", !.ram = 0]
          [] f = "missing" -> [Plain EXCEPT !.opens = FALSE]]

MCCommandLines == {<<a, b, c>> : a, b, c \in MCFiles}
=============================================================================
