------------------------ MODULE MCEventIntelligence ------------------------
(* Evidence that can meet in every way matching knows.                     *)
EXTENDS EventIntelligence, TLC

CONSTANTS e1, e2, e3, s1, s2

\* Two spellings of one URL, and one that is no http URL.
MCCanonical == [u1 |-> "u", u1utm |-> "u", ftp |-> None]

MCFingerprint == [Fed |-> "fed", fed |-> "fed"]

Fact(official, id, url, title, entities, time, source) ==
    [official |-> official, id |-> id, url |-> url, title |-> title, entities |-> entities,
     time |-> time, source |-> source]

\* e1 and e2 share a URL; e3 has the title of both, and an entity of e1 only.
MCFacts ==
    [e \in Evidence |->
        CASE e = e1 -> Fact(TRUE, "o1", "u1", "Fed", {"a", "b"}, 1, "official")
          [] e = e2 -> Fact(FALSE, "x2", "u1utm", "fed", {"c"}, 3, "wire")
          [] OTHER  -> Fact(FALSE, None, "ftp", "fed", {"b"}, 2, "blog")]

SessionSymmetry == Permutations(Sessions)

=============================================================================
