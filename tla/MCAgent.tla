------------------------------- MODULE MCAgent -------------------------------
(* A run that asks for more steps than it may and no tokens, and a stream of *)
(* the feed.  Directories of ten kinds of entries, and of a directory below. *)
EXTENDS Agent

CONSTANT r1

MCAsked == [r \in Runs |-> [steps |-> 9, calls |-> 9, tokens |-> 0]]

MCHosts == {[dlp |-> b, fs |-> [roots |-> TRUE, links |-> b]] : b \in BOOLEAN}

Dir  == [absolute |-> TRUE, link |-> FALSE, exists |-> TRUE, at |-> "root",
         denied |-> FALSE, kind |-> "dir"]
File == [Dir EXCEPT !.at = "inside", !.kind = "file"]

F(name, hits) == Entry(name, "file", FALSE, FALSE, TRUE, hits, "none")
D(name, dir)  == Entry(name, "dir", FALSE, FALSE, FALSE, 0, dir)

Pool == {F(1, 0), F(2, 1), F(3, 2), D(4, "sub"), D(5, "unreadable"),
         Entry(6, "file", TRUE, FALSE, TRUE, 1, "none"),
         Entry(7, "file", FALSE, TRUE, TRUE, 1, "none"),
         Entry(8, "file", FALSE, FALSE, FALSE, 1, "none"),
         Entry(9, "link", FALSE, FALSE, TRUE, 1, "none"),
         Entry(10, "other", FALSE, FALSE, TRUE, 1, "none")}

Plain == {F(2, 1), F(3, 2), D(4, "sub")}

Listings == {<< >>} \union {<<e>> : e \in Pool}
              \union {<<p[1], p[2]>> : p \in {q \in Plain \X Plain : q[1] # q[2]}}
              \union {<<F(1, 0), D(4, "sub"), F(2, 1)>>, <<D(4, "sub"), F(1, 0), F(2, 1)>>,
                      <<F(2, 1), F(1, 0), F(3, 2)>>}

Subs(listing) == IF D(4, "sub") \in Range(listing)
                 THEN {<< >>, <<F(11, 1)>>, <<F(12, 0), F(11, 1)>>} ELSE {<< >>}

Greps == UNION {{[tool |-> "grep", complete |-> TRUE, path |-> Dir, top |-> "top",
                  tree |-> [d \in {"top", "sub"} |-> IF d = "top" THEN l ELSE s]] :
                    s \in Subs(l)} : l \in Listings}

Lists == {[tool |-> "list_dir", complete |-> TRUE, path |-> Dir, entries |-> l] :
            l \in {<<F(2, 1), F(1, 0)>>, <<F(3, 2), F(2, 1), F(1, 0)>>}}

Reads == {[tool |-> "read_file", complete |-> TRUE, path |-> p,
           file |-> [size |-> z, left |-> l, text |-> TRUE, splits |-> FALSE]] :
            p \in {File, [File EXCEPT !.at = "outside"]}, z \in {1, MaxBytes + 1}, l \in {0, 1}}

Waits == {[tool |-> "git_log", complete |-> TRUE, path |-> Dir, asked |-> 0,
           log |-> [repository |-> TRUE, run |-> w, within |-> TRUE, commits |-> 2]] :
             w \in {"ends", "late"}}
   \union {[tool |-> "web_fetch", complete |-> TRUE,
            page |-> [url |-> "https", host |-> "public", reply |-> "ok",
                      chunks |-> <<1, 2>>, type |-> t]] : t \in {"html", "binary"}}
   \union {[tool |-> "list_models", complete |-> TRUE, up |-> u] : u \in BOOLEAN}

Others == {[tool |-> t, complete |-> TRUE] : t \in {"search_memory", "unknown"}}
   \union {[tool |-> "cite", complete |-> c] : c \in BOOLEAN}

MCToolCalls == [r \in Runs |-> Greps \union Lists \union Reads \union Waits \union Others]
=============================================================================
