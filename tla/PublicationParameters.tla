------------------------ MODULE PublicationParameters ------------------------
(***************************************************************************)
(* The clients and Galaxy servers of Publication.                          *)
(***************************************************************************)
EXTENDS Integers

CONSTANTS
    Client,   \* each has one collection, for a server of its choice
    Form,     \* Form[s]: how the Galaxy server s may name an import's task
    Coding,   \* content codings of Galaxy's replies
    MaxLost   \* how many exchanges with Galaxy fail

Forms == {"root", "relative", "absolute", "none"}

ASSUME PublicationAssumption ==
    /\ \A s \in DOMAIN Form : Form[s] \subseteq Forms
    /\ Coding \subseteq {"identity", "gzip"}
    /\ MaxLost \in Nat
=============================================================================
