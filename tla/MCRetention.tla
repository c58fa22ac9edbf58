---- MODULE MCRetention ----
\* Small instance of Retention.
EXTENDS Retention
====
