---- MODULE MCCrawlerStats ----
EXTENDS CrawlerStats, TLC

Symmetry == Permutations(Instance)
====
