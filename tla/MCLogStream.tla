---- MODULE MCLogStream ----
\* The instance of the log stream: two lines of at most two messages, and the code's buffer of one.
EXTENDS LogStream
====
