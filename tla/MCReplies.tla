----------------------------- MODULE MCReplies -----------------------------
EXTENDS Replies, TLC
=============================================================================
