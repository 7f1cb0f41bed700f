\* Two concurrent callers of one file; three inodes hold the linked file and one
\* staged file each, and are reused as soon as they are free.
CONSTANTS
    Proc = {p1, p2}
    Name = {n1}
    Value = {v1, v2}
    Inode = {i1, i2, i3}
    NoInode = NoInode
    NoValue = NoValue
    Alien = Alien
    NoCall = NoCall
    Torn = Torn
    ForeignMode <- MCForeignMode
    Umask <- MCUmask
SYMMETRY MCSymmetry
VIEW MCView
SPECIFICATION Spec
INVARIANTS StagedPrivate UnsafeExplained
PROPERTIES ImplementsCredentialFile PublishesComplete OpenInodesImmutable NeverRepairs
