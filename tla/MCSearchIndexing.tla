---- MODULE MCSearchIndexing ----
EXTENDS SearchIndexing, TLC

CONSTANTS s1, a1

OneSong == [e \in Entity |-> "song"]
OneArtist == [e \in Entity |-> "artist"]

Symmetry == Permutations(Job) \cup Permutations(Worker)
====
