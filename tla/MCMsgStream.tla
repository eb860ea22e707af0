------------------------------ MODULE MCMsgStream ------------------------------
EXTENDS MsgStream
AllKinds == DOMAIN Document
=============================================================================
