-------------------------- MODULE MCUpstreamCalls --------------------------
\* Instances of UpstreamCalls for TLC.
EXTENDS UpstreamCalls

\* A GET, a POST without Idempotency-Key, and a streamed GET.
CONSTANTS get, post, stream
=============================================================================
