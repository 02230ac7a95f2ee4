---------------------------- MODULE MC_Retryable ----------------------------
EXTENDS Retryable

\* A negative, a zero and a short positive StartRetryTimeout: the zero
\* is replaced by the default for the Windows kinds and kept by SSH.
MCTimeouts == {-3, 0, 7}

=============================================================================
