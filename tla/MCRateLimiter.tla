---------------------------- MODULE MCRateLimiter ----------------------------
(* Three requests at once on one key: enough for one thread to wait for    *)
(* the lock while another prunes and a third fills the deque up again.     *)
EXTENDS RateLimiter

MCThreads == 1..3
MCKeys    == {"login"}

==============================================================================
