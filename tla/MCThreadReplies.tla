-------------------------- MODULE MCThreadReplies --------------------------
EXTENDS ThreadReplies

CONSTANTS author, local, remote, outsider

MCReplies == 1..2
MCAccounts == {author, local, remote, outsider}
MCVisible == {author, local, remote}
MCRemote == {author, remote}

Plain(a) == [by |-> a, mentions |-> {}, knows |-> TRUE, migrated |-> FALSE, user |-> TRUE]
LegacyRoom(accounts) == [NoRoom EXCEPT !.exists = TRUE, !.accounts = accounts]

MCScenarios ==
    {
      \* Two first replies at once, the parent saved meanwhile; one is its author's,
      \* and the gatekeeper did not know its time.
      [events |-> <<Plain(local), [Plain(author) EXCEPT !.knows = FALSE]>>,
       parent |-> "pending", room |-> NoRoom,
       readers |-> {}, workers |-> 2, unknown |-> {}],
      \* The second of two first replies mentions the sender of the other.
      [events |-> <<Plain(remote), [Plain(local) EXCEPT !.mentions = {remote}]>>,
       parent |-> "saved", room |-> NoRoom, readers |-> {}, workers |-> 2, unknown |-> {}],
      \* The parent is never saved.
      [events |-> <<[Plain(local) EXCEPT !.knows = FALSE], [Plain(author) EXCEPT !.knows = FALSE]>>,
       parent |-> "never", room |-> NoRoom, readers |-> {}, workers |-> 2, unknown |-> {}],
      \* A migrated reply, then a live one that mentions an outsider; the
      \* user store may not know the remote accounts.
      [events |-> <<[Plain(remote) EXCEPT !.migrated = TRUE, !.mentions = {local}],
                    [Plain(local) EXCEPT !.mentions = {outsider}]>>,
       parent |-> "saved", room |-> NoRoom, readers |-> {}, workers |-> 2, unknown |-> {author, remote}],
      \* A room from before the flags, its followers reading while they are mentioned.
      [events |-> <<[Plain(local) EXCEPT !.mentions = {remote}], [Plain(author) EXCEPT !.mentions = {local}]>>,
       parent |-> "saved", room |-> LegacyRoom({local, remote}), readers |-> {remote},
       workers |-> 1, unknown |-> {}],
      \* A reply mentions an account that reads it at once; then a system reply.
      [events |-> <<[Plain(local) EXCEPT !.mentions = {remote}], [Plain(remote) EXCEPT !.user = FALSE]>>,
       parent |-> "saved", room |-> NoRoom, readers |-> {remote}, workers |-> 1, unknown |-> {}],
      \* Two replies in a thread of accounts the user store may not know.
      [events |-> <<Plain(local), Plain(remote)>>,
       parent |-> "saved", room |-> NoRoom, readers |-> {}, workers |-> 1,
       unknown |-> {author, remote}],
      \* The same in a room from before the flags.
      [events |-> <<Plain(local), Plain(author)>>,
       parent |-> "saved", room |-> LegacyRoom({local, remote}), readers |-> {}, workers |-> 1,
       unknown |-> {author, remote}]
    }
=============================================================================
